---- MODULE Spec2Model ----
(***************************************************************************)
(* HiDRA sender: the SignalHandler's subscription registries and request   *)
(* forwarding (src/src/sender/signalhandler.py), and the chunked file      *)
(* transfer with confirmation-gated removal                                *)
(* (src/src/sender/datafetchers/file_fetcher.py, src/src/APIs/hidra/       *)
(* transfer.py).                                                           *)
(***************************************************************************)
EXTENDS Integers, Sequences, FiniteSets, TLC

(***************************************************************************)
(* Bounds of the model.                                                    *)
(***************************************************************************)
\* longest target list of one START/STOP request
MaxTargets == 2
\* a START that would append a nodeset is taken only below this registry length
MaxNodesets == 2
\* a NEXT is taken only while it leaves no pending queue longer than this
MaxPending == 2
\* longest burst of GET_REQUESTS whose deliveries are counted
MaxBurst == 2
\* most NEXT requests counted per socket id
MaxNext == 1
\* largest source file, in bytes
MaxFileSize == 3
\* largest configured chunksize, in bytes
MaxChunkSize == 2

(***************************************************************************)
(* Python values.                                                          *)
(***************************************************************************)
Min(a, b) == IF a < b THEN a ELSE b

\* list.index(x): position of the first element equal to x (1-based), 0 if absent
RECURSIVE IndexOfFrom(_, _, _)
IndexOfFrom(list, x, i) ==
    IF i > Len(list) THEN 0
    ELSE IF list[i] = x THEN i
    ELSE IndexOfFrom(list, x, i + 1)

IndexOf(list, x) == IndexOfFrom(list, x, 1)

\* del list[i] / list.pop(i), i 1-based and in range
DelAt(list, i) == SubSeq(list, 1, i - 1) \o SubSeq(list, i + 1, Len(list))

\* list.remove(x): drops the first element equal to x
ListRemove(list, x) == DelAt(list, IndexOf(list, x))

\* all sequences over S of length 0..n
SeqsUpTo(S, n) == UNION {[1..k -> S] : k \in 0..n}

(***************************************************************************)
(* Characters and strings: a string is a sequence of one-character         *)
(* strings; Ascii gives the code points Python's string order compares.    *)
(***************************************************************************)
Ascii(c) ==
    CASE c = "$" -> 36 [] c = "(" -> 40 [] c = ")" -> 41 [] c = "*" -> 42
      [] c = "." -> 46 [] c = "/" -> 47 [] c = "a" -> 97 [] c = "b" -> 98
      [] c = "c" -> 99 [] c = "f" -> 102 [] c = "g" -> 103 [] c = "l" -> 108
      [] c = "o" -> 111 [] c = "p" -> 112 [] c = "r" -> 114 [] c = "s" -> 115
      [] c = "t" -> 116 [] c = "x" -> 120 [] c = "|" -> 124
      [] OTHER -> 0

\* s < t for Python strings (lexicographic by code point)
RECURSIVE StrLess(_, _)
StrLess(s, t) ==
    IF t = <<>> THEN FALSE
    ELSE IF s = <<>> THEN TRUE
    ELSE IF Head(s) = Head(t) THEN StrLess(Tail(s), Tail(t))
    ELSE Ascii(Head(s)) < Ascii(Head(t))

\* "|".join(items)
RECURSIVE JoinBar(_)
JoinBar(items) ==
    IF items = <<>> THEN <<>>
    ELSE IF Len(items) = 1 THEN items[1]
    ELSE items[1] \o <<"|">> \o JoinBar(Tail(items))

(***************************************************************************)
(* Regular expressions of subscriptions.  A regex is kept as the list of   *)
(* its alternatives: <<>> is ".*", <<s1, s2>> is ".*(s1|s2)$".             *)
(***************************************************************************)
\* hidra.convert_suffix_list_to_regex(pattern, suffix=True) for a suffix list:
\* file_suffix is the items joined by "|"; the group is added only if it is
\* not the empty string
convert_suffix_list_to_regex(pattern) ==
    IF JoinBar(pattern) = <<>> THEN <<>> ELSE pattern

\* the regex string, as sorted() compares it
RegexString(regex) ==
    IF regex = <<>> THEN <<".", "*">>
    ELSE <<".", "*", "(">> \o JoinBar(regex) \o <<")", "$">>

\* one alternative matched against the end of the name; "." matches any character
AltMatchesEnd(alt, filename) ==
    /\ Len(alt) <= Len(filename)
    /\ \A k \in 1..Len(alt) :
          alt[k] = "." \/ alt[k] = filename[Len(filename) - Len(alt) + k]

\* pattern.match(filename) is not None
PatternMatch(regex, filename) ==
    \/ regex = <<>>
    \/ \E k \in 1..Len(regex) : AltMatchesEnd(regex[k], filename)

(***************************************************************************)
(* Hosts and socket ids.  A host name is the sequence of its DNS labels; a *)
(* socket id "<host>:<port>" is the pair <<host, port>>.                   *)
(***************************************************************************)
\* socket.getfqdn as used by utils.convert_socket_to_fqdn: the short name of
\* the beamline host resolves to its fully-qualified name, any other name
\* is returned as given
Fqdn(host) == IF host = <<"h">> THEN <<"h", "desy", "de">> ELSE host

FqdnId(id) == <<Fqdn(id[1]), id[2]>>

\* utils.convert_socket_to_fqdn(targets): target[0] of every target
convert_socket_to_fqdn(targets) ==
    [i \in DOMAIN targets |-> [targets[i] EXCEPT ![1] = FqdnId(@)]]

\* host.endswith(".desy.de") and host[:-8]
EndsWithDesyDe(host) ==
    Len(host) >= 3 /\ host[Len(host) - 1] = "desy" /\ host[Len(host)] = "de"

StripDesyDe(host) ==
    IF EndsWithDesyDe(host) THEN SubSeq(host, 1, Len(host) - 2) ELSE host

\* checkHost letting a list pass as soon as one of its hosts is allowed
checkHost_any(hostname, whiteList) ==
    IF hostname # <<>> /\ whiteList # {}
    THEN \E i \in 1..Len(hostname) :
            hostname[i] \in whiteList \/ StripDesyDe(hostname[i]) \in whiteList
    ELSE FALSE

\* helpers.checkHost for a list of host names
checkHost(hostname, whiteList) ==
    IF hostname # <<>> /\ whiteList # {}
    THEN \A i \in 1..Len(hostname) :
            hostname[i] \in whiteList \/ StripDesyDe(hostname[i]) \in whiteList
    ELSE FALSE

\* "<host>:<port>" strings compare like Python strings: the host names of the
\* model in string order ("h" < "h.desy.de" < "x"), then the four-digit port
HostRank(host) ==
    CASE host = <<"h">> -> 1 [] host = <<"h", "desy", "de">> -> 2 [] OTHER -> 3

SocketIdLess(a, b) ==
    IF a[1] = b[1] THEN a[2] < b[2] ELSE HostRank(a[1]) < HostRank(b[1])

(***************************************************************************)
(* Registered subscriptions: [socket_id, prio, regex, send_type].          *)
(***************************************************************************)
\* a < b for two such Python lists
EntryLess(a, b) ==
    IF a[1] # b[1] THEN SocketIdLess(a[1], b[1])
    ELSE IF a[2] # b[2] THEN a[2] < b[2]
    ELSE IF a[3] # b[3] THEN StrLess(RegexString(a[3]), RegexString(b[3]))
    ELSE IF a[4] # b[4] THEN a[4] = "data"
    ELSE FALSE

RECURSIVE InsertSorted(_, _)
InsertSorted(list, e) ==
    IF list = <<>> THEN <<e>>
    ELSE IF EntryLess(e, Head(list)) THEN <<e>> \o list
    ELSE <<Head(list)>> \o InsertSorted(Tail(list), e)

\* sorted(list)
RECURSIVE Sorted(_)
Sorted(list) ==
    IF list = <<>> THEN <<>>
    ELSE InsertSorted(Sorted(SubSeq(list, 1, Len(list) - 1)), list[Len(list)])

\* set([j[0] for j in sublist])
IdSet(sublist) == {sublist[i][1] : i \in DOMAIN sublist}

(***************************************************************************)
(* SignalHandler._start_signal and _stop_signal as functions of the lists  *)
(* they update.  mode is "perm" for the stream registry (perm_requests is  *)
(* next_requ_node, vari_requests is None) and "vari" for the query         *)
(* registry (vari_requests is open_requ_vari, perm_requests is None).      *)
(* crashed: an exception left the function (IndexError).                   *)
(***************************************************************************)
\* the loop over registered_socketids_flatlist: the last subset or superset
\* sets overwrite_index, through list.index (0: overwrite_index stays None)
RECURSIVE OverwriteIndexFrom(_, _, _, _)
OverwriteIndexFrom(flatlist, ids, k, found) ==
    IF k > Len(flatlist) THEN found
    ELSE IF ids \subseteq flatlist[k] \/ flatlist[k] \subseteq ids
    THEN OverwriteIndexFrom(flatlist, ids, k + 1, IndexOf(flatlist, flatlist[k]))
    ELSE OverwriteIndexFrom(flatlist, ids, k + 1, found)

OverwriteIndex(registered_ids, socket_ids) ==
    OverwriteIndexFrom([i \in DOMAIN registered_ids |-> IdSet(registered_ids[i])],
                       IdSet(socket_ids), 1, 0)

\* sorted([i + [send_type] for i in socket_ids]) with the regexes converted
NewNodeSet(socket_ids, send_type) ==
    Sorted([i \in DOMAIN socket_ids |->
              <<socket_ids[i][1], socket_ids[i][2],
                convert_suffix_list_to_regex(socket_ids[i][3]), send_type>>])

start_signal(mode, send_type, socket_ids, registered_ids, vari_requests, perm_requests) ==
    LET ids == convert_socket_to_fqdn(socket_ids)
        st == [reg |-> registered_ids, vari |-> vari_requests,
               perm |-> perm_requests, crashed |-> FALSE]
    IN
    IF \E i \in DOMAIN ids : Len(ids[i]) < 3
    THEN [st EXCEPT !.crashed = TRUE]
    ELSE
    LET overwrite_index == OverwriteIndex(registered_ids, ids) IN
    IF overwrite_index # 0
    THEN IF (mode = "perm" /\ overwrite_index > Len(perm_requests))
            \/ (mode = "vari" /\ overwrite_index > Len(vari_requests))
         THEN [st EXCEPT !.reg[overwrite_index] = NewNodeSet(ids, send_type),
                         !.crashed = TRUE]
         ELSE [reg |-> [registered_ids EXCEPT
                           ![overwrite_index] = NewNodeSet(ids, send_type)],
               vari |-> IF mode = "vari"
                        THEN [vari_requests EXCEPT ![overwrite_index] = <<>>]
                        ELSE vari_requests,
               perm |-> IF mode = "perm"
                        THEN [perm_requests EXCEPT ![overwrite_index] = 0]
                        ELSE perm_requests,
               crashed |-> FALSE]
    ELSE [reg |-> Append(registered_ids, NewNodeSet(ids, send_type)),
          vari |-> IF mode = "vari" THEN Append(vari_requests, <<>>)
                   ELSE vari_requests,
          perm |-> IF mode = "perm" THEN Append(perm_requests, 0)
                   ELSE perm_requests,
          crashed |-> FALSE]

\* [j for sublist in registered_ids for j in sublist]
RECURSIVE Flatten(_)
Flatten(registered_ids) ==
    IF registered_ids = <<>> THEN <<>>
    ELSE Head(registered_ids) \o Flatten(Tail(registered_ids))

\* to_remove: for every requested socket id, in request order, the registered
\* entries with that id
RECURSIVE ToRemove(_, _)
ToRemove(socket_ids, registered_ids) ==
    IF socket_ids = <<>> THEN <<>>
    ELSE SelectSeq(Flatten(registered_ids),
                   LAMBDA reg_id : reg_id[1] = Head(socket_ids)[1])
         \o ToRemove(Tail(socket_ids), registered_ids)

\* one round of "for i, node_set in enumerate(registered_ids)" (i 1-based)
StopScanStep(st, mode, element, i) ==
    IF IndexOf(st.reg[i], element) = 0 THEN st
    ELSE
    LET node_set == ListRemove(st.reg[i], element)
        st1 == [st EXCEPT !.reg[i] = node_set]
    IN
    IF node_set = <<>>
    THEN IF mode = "vari"
         THEN IF i > Len(st1.vari) THEN [st1 EXCEPT !.crashed = TRUE]
              ELSE [st1 EXCEPT !.idx = Append(@, i), !.vari = DelAt(@, i)]
         ELSE IF i > Len(st1.perm) THEN [st1 EXCEPT !.crashed = TRUE]
              ELSE [st1 EXCEPT !.idx = Append(@, i), !.perm = DelAt(@, i)]
    ELSE IF mode = "perm"
         THEN IF i > Len(st1.perm) THEN [st1 EXCEPT !.crashed = TRUE]
              ELSE [st1 EXCEPT !.perm[i] = @ % Len(node_set)]
         ELSE st1

RECURSIVE StopScan(_, _, _, _)
StopScan(st, mode, element, i) ==
    IF st.crashed \/ i > Len(st.reg) THEN st
    ELSE StopScan(StopScanStep(st, mode, element, i), mode, element, i + 1)

\* "for index in index_to_remove: del registered_ids[index]"
RECURSIVE StopDelete(_, _)
StopDelete(st, index_to_remove) ==
    IF st.crashed \/ index_to_remove = <<>> THEN st
    ELSE IF Head(index_to_remove) > Len(st.reg) THEN [st EXCEPT !.crashed = TRUE]
    ELSE StopDelete([st EXCEPT !.reg = DelAt(@, Head(index_to_remove))],
                    Tail(index_to_remove))

\* the body of "for element in to_remove"
StopElement(st, mode, element) ==
    LET st1 == IF mode = "vari"
               THEN [st EXCEPT !.vari =
                        [a \in DOMAIN st.vari |->
                            SelectSeq(st.vari[a],
                                      LAMBDA socket_conf : socket_conf[1] # element[1])]]
               ELSE st
        st2 == StopScan([st1 EXCEPT !.idx = <<>>], mode, element, 1)
    IN StopDelete(st2, st2.idx)

RECURSIVE StopAll(_, _, _)
StopAll(st, mode, to_remove) ==
    IF st.crashed \/ to_remove = <<>> THEN st
    ELSE StopAll(StopElement(st, mode, Head(to_remove)), mode, Tail(to_remove))

\* found: to_remove is not empty.  On a crash the rebound local vari_requests
\* is lost and open_requ_vari keeps the list it had.
stop_signal(mode, socket_ids, registered_ids, vari_requests, perm_requests) ==
    LET ids == convert_socket_to_fqdn(socket_ids)
        to_remove == ToRemove(ids, registered_ids)
        st == StopAll([reg |-> registered_ids, vari |-> vari_requests,
                       perm |-> perm_requests, idx |-> <<>>, crashed |-> FALSE],
                      mode, to_remove)
    IN [found |-> to_remove # <<>>,
        reg |-> st.reg,
        vari |-> IF st.crashed THEN vari_requests ELSE st.vari,
        perm |-> st.perm,
        crashed |-> st.crashed]

(***************************************************************************)
(* The GET_REQUESTS selection of SignalHandler.run.                        *)
(***************************************************************************)
\* one round of "for request_set in self.open_requ_perm" (k 1-based);
\* st.failed: request_set[self.next_requ_node[index]] raised IndexError
PermStep(open_requ_perm_, st, filename, k) ==
    LET request_set == open_requ_perm_[k] IN
    IF request_set = <<>> THEN st
    ELSE
    LET index == IndexOf(open_requ_perm_, request_set) IN
    IF index > Len(st.node) THEN [st EXCEPT !.failed = TRUE]
    ELSE IF st.node[index] >= Len(request_set) THEN [st EXCEPT !.failed = TRUE]
    ELSE
    LET entry == request_set[st.node[index] + 1] IN
    IF PatternMatch(entry[3], filename)
    THEN [st EXCEPT !.open_requests = Append(@, <<entry[1], entry[2], entry[4]>>),
                    !.served = Append(@, <<k, st.node[index]>>),
                    !.node[index] = (@ + 1) % Len(request_set)]
    ELSE st

RECURSIVE PermLoop(_, _, _, _)
PermLoop(open_requ_perm_, st, filename, k) ==
    IF st.failed \/ k > Len(open_requ_perm_) THEN st
    ELSE PermLoop(open_requ_perm_, PermStep(open_requ_perm_, st, filename, k),
                  filename, k + 1)

\* "for request_set in self.open_requ_vari": the head of a pending queue is
\* popped and emitted if its pattern matches
VariGranted(request_set, filename) ==
    request_set # <<>> /\ PatternMatch(request_set[1][3], filename)

RECURSIVE VariEmitted(_, _)
VariEmitted(open_requ_vari_, filename) ==
    IF open_requ_vari_ = <<>> THEN <<>>
    ELSE (IF VariGranted(Head(open_requ_vari_), filename)
          THEN LET e == Head(open_requ_vari_)[1] IN << <<e[1], e[2], e[4]>> >>
          ELSE <<>>)
         \o VariEmitted(Tail(open_requ_vari_), filename)

VariPopped(open_requ_vari_, filename) ==
    [k \in DOMAIN open_requ_vari_ |->
        IF VariGranted(open_requ_vari_[k], filename)
        THEN Tail(open_requ_vari_[k]) ELSE open_requ_vari_[k]]

\* the selection for one file identifier: the new cursors and pending queues,
\* the list answered, and failed if an exception ended the handler early
\* (then nothing is answered and the pending queues were not reached)
get_requests(open_requ_perm_, next_requ_node_, open_requ_vari_, filename) ==
    LET st == PermLoop(open_requ_perm_,
                       [node |-> next_requ_node_, open_requests |-> <<>>,
                        served |-> <<>>, failed |-> FALSE],
                       filename, 1)
    IN IF st.failed
       THEN [node |-> st.node, vari |-> open_requ_vari_, open_requests |-> <<>>,
             served |-> st.served, failed |-> TRUE]
       ELSE [node |-> st.node, vari |-> VariPopped(open_requ_vari_, filename),
             open_requests |-> st.open_requests
                               \o VariEmitted(open_requ_vari_, filename),
             served |-> st.served, failed |-> FALSE]

(***************************************************************************)
(* Versions: a version string is the sequence of its dot-separated parts.  *)
(***************************************************************************)
\* the sender's _version.__version__
SenderVersion == <<4, 0, 7>>

\* version.rsplit(".", 1)[0]
VersionBase(version) ==
    IF Len(version) > 1 THEN SubSeq(version, 1, Len(version) - 1) ELSE version

\* checkVersion comparing the whole version string, the patch included
checkVersion_exact(version) == version = SenderVersion

\* helpers.checkVersion: neither lower nor higher
checkVersion(version) == VersionBase(version) = VersionBase(SenderVersion)

(***************************************************************************)
(* State of the SignalHandler.                                             *)
(***************************************************************************)
VARIABLES
    open_requ_perm,    \* stream registry: list of nodesets
    next_requ_node,    \* cursor of every stream nodeset
    allowed_queries,   \* query registry: list of nodesets
    open_requ_vari,    \* pending queue of every query nodeset
    running,           \* the run loop has not been left by an exception
    store_data,        \* config["store_data"]
    com_reply,         \* reply sent on com_socket by the last step
    fw_reply,          \* answer sent on request_fw_socket by the last step
    control_pub,       \* message published on control_pub_socket by the last step
    polled             \* the socket whose message the last step handled

shvars == <<open_requ_perm, next_requ_node, allowed_queries, open_requ_vari,
            running, store_data, com_reply, fw_reply, control_pub, polled>>

\* the whitelist the SignalHandler was started with
whitelist == {<<"h">>}

NoPub == [signal |-> "", socket_ids |-> <<>>]
NoFwReply == [answered |-> FALSE, open_requests |-> <<>>]

ShInit ==
    /\ open_requ_perm = <<>>
    /\ next_requ_node = <<>>
    /\ allowed_queries = <<>>
    /\ open_requ_vari = <<>>
    /\ running = TRUE
    /\ store_data \in BOOLEAN
    /\ com_reply = <<>>
    /\ fw_reply = NoFwReply
    /\ control_pub = NoPub
    /\ polled = ""

\* SignalHandler.check_signal_inverted: the error reply, or <<>> (False)
check_signal_inverted(in_message) ==
    IF in_message.frames # 3 THEN <<"NO_VALID_SIGNAL">>
    ELSE IF ~in_message.json_ok
            \/ \E i \in DOMAIN in_message.targets : Len(in_message.targets[i]) = 0
    THEN <<"NO_VALID_SIGNAL">>
    ELSE
    LET targets == convert_socket_to_fqdn(in_message.targets)
        host == [i \in DOMAIN targets |-> targets[i][1][1]]
    IN
    IF in_message.version # <<>> /\ ~checkVersion(in_message.version)
    THEN <<"VERSION_CONFLICT", "__version__">>
    ELSE IF in_message.signal # "" /\ host # <<>> /\ ~checkHost(host, whitelist)
    THEN <<"NO_VALID_HOST">>
    ELSE <<>>

\* react_to_signal registering a metadata subscription although storing is
\* disabled, and replying STORING_DISABLED
react_to_signal_storing(signal, socket_ids, leak) ==
    LET same == [perm |-> open_requ_perm, node |-> next_requ_node,
                 allowed |-> allowed_queries, vari |-> open_requ_vari,
                 reply |-> <<>>, pub |-> NoPub, crashed |-> FALSE]
        start_perm(send_type) ==
            LET r == start_signal("perm", send_type, socket_ids, open_requ_perm,
                                  <<>>, next_requ_node)
            IN [same EXCEPT !.perm = r.reg, !.node = r.perm, !.crashed = r.crashed,
                            !.reply = IF r.crashed THEN <<>> ELSE <<signal>>]
        start_vari(send_type) ==
            LET r == start_signal("vari", send_type, socket_ids, allowed_queries,
                                  open_requ_vari, <<>>)
            IN [same EXCEPT !.allowed = r.reg, !.vari = r.vari, !.crashed = r.crashed,
                            !.reply = IF r.crashed THEN <<>> ELSE <<signal>>]
        stopped(r) ==
            IF ~r.found
            THEN [same EXCEPT !.reply = <<"NO_OPEN_CONNECTION_FOUND">>,
                              !.crashed = (socket_ids = <<>> \/ ~leak)]
            ELSE [same EXCEPT !.reply = <<signal>>, !.crashed = r.crashed,
                              !.pub = IF r.crashed THEN NoPub
                                      ELSE [signal |-> "CLOSE_SOCKETS",
                                            socket_ids |->
                                               convert_socket_to_fqdn(socket_ids)]]
    IN
    CASE signal = "GET_VERSION" ->
            [same EXCEPT !.reply = <<signal, "__version__">>]
      [] signal = "START_STREAM" -> start_perm("data")
      [] signal = "START_STREAM_METADATA" ->
            IF ~store_data
            THEN [start_perm("metadata")
                     EXCEPT !.reply = <<"STORING_DISABLED", "__version__">>]
            ELSE start_perm("metadata")
      [] signal \in {"STOP_STREAM", "STOP_STREAM_METADATA"} ->
            LET r == stop_signal("perm", socket_ids, open_requ_perm, <<>>,
                                 next_requ_node)
            IN [stopped(r) EXCEPT !.perm = r.reg, !.node = r.perm]
      [] signal = "START_QUERY_NEXT" -> start_vari("data")
      [] signal = "START_QUERY_METADATA" ->
            IF ~store_data
            THEN [start_vari("metadata")
                     EXCEPT !.reply = <<"STORING_DISABLED", "__version__">>]
            ELSE start_vari("metadata")
      [] signal \in {"STOP_QUERY_NEXT", "STOP_QUERY_METADATA"} ->
            LET r == stop_signal("vari", socket_ids, allowed_queries,
                                 open_requ_vari, <<>>)
            IN [stopped(r) EXCEPT !.allowed = r.reg, !.vari = r.vari]
      [] OTHER -> [same EXCEPT !.reply = <<"NO_VALID_SIGNAL">>]

\* SignalHandler.react_to_signal: what it leaves in the registries, what it
\* replies and publishes.  leak: the names bound inside a list comprehension
\* are still bound after it (Python 2) or not (Python 3), which decides
\* whether the log call after NO_OPEN_CONNECTION_FOUND raises NameError.
react_to_signal(signal, socket_ids, leak) ==
    LET same == [perm |-> open_requ_perm, node |-> next_requ_node,
                 allowed |-> allowed_queries, vari |-> open_requ_vari,
                 reply |-> <<>>, pub |-> NoPub, crashed |-> FALSE]
        start_perm(send_type) ==
            LET r == start_signal("perm", send_type, socket_ids, open_requ_perm,
                                  <<>>, next_requ_node)
            IN [same EXCEPT !.perm = r.reg, !.node = r.perm, !.crashed = r.crashed,
                            !.reply = IF r.crashed THEN <<>> ELSE <<signal>>]
        start_vari(send_type) ==
            LET r == start_signal("vari", send_type, socket_ids, allowed_queries,
                                  open_requ_vari, <<>>)
            IN [same EXCEPT !.allowed = r.reg, !.vari = r.vari, !.crashed = r.crashed,
                            !.reply = IF r.crashed THEN <<>> ELSE <<signal>>]
        stopped(r) ==
            IF ~r.found
            THEN [same EXCEPT !.reply = <<"NO_OPEN_CONNECTION_FOUND">>,
                              !.crashed = (socket_ids = <<>> \/ ~leak)]
            ELSE [same EXCEPT !.reply = <<signal>>, !.crashed = r.crashed,
                              !.pub = IF r.crashed THEN NoPub
                                      ELSE [signal |-> "CLOSE_SOCKETS",
                                            socket_ids |->
                                               convert_socket_to_fqdn(socket_ids)]]
    IN
    CASE signal = "GET_VERSION" ->
            [same EXCEPT !.reply = <<signal, "__version__">>]
      [] signal = "START_STREAM" -> start_perm("data")
      [] signal = "START_STREAM_METADATA" ->
            IF ~store_data
            THEN [same EXCEPT !.reply = <<"STORING_DISABLED", "__version__">>]
            ELSE start_perm("metadata")
      [] signal \in {"STOP_STREAM", "STOP_STREAM_METADATA"} ->
            LET r == stop_signal("perm", socket_ids, open_requ_perm, <<>>,
                                 next_requ_node)
            IN [stopped(r) EXCEPT !.perm = r.reg, !.node = r.perm]
      [] signal = "START_QUERY_NEXT" -> start_vari("data")
      [] signal = "START_QUERY_METADATA" ->
            IF ~store_data
            THEN [same EXCEPT !.reply = <<"STORING_DISABLED", "__version__">>]
            ELSE start_vari("metadata")
      [] signal \in {"STOP_QUERY_NEXT", "STOP_QUERY_METADATA"} ->
            LET r == stop_signal("vari", socket_ids, allowed_queries,
                                 open_requ_vari, <<>>)
            IN [stopped(r) EXCEPT !.allowed = r.reg, !.vari = r.vari]
      [] OTHER -> [same EXCEPT !.reply = <<"NO_VALID_SIGNAL">>]

\* ComRequest reacting to the signal of a request that the version or host
\* check rejected, and replying the error
ComRequest_unchecked(in_message, leak) ==
    /\ running
    /\ LET check_failed == check_signal_inverted(in_message)
           r == IF check_failed = <<>>
                THEN react_to_signal(in_message.signal,
                                     convert_socket_to_fqdn(in_message.targets), leak)
                ELSE IF check_failed[1] \in {"VERSION_CONFLICT", "NO_VALID_HOST"}
                THEN [react_to_signal(in_message.signal,
                                      convert_socket_to_fqdn(in_message.targets),
                                      leak)
                         EXCEPT !.reply = check_failed]
                ELSE [perm |-> open_requ_perm, node |-> next_requ_node,
                      allowed |-> allowed_queries, vari |-> open_requ_vari,
                      reply |-> check_failed, pub |-> NoPub, crashed |-> FALSE]
       IN
       /\ Len(r.perm) <= MaxNodesets
       /\ Len(r.allowed) <= MaxNodesets
       /\ open_requ_perm' = r.perm
       /\ next_requ_node' = r.node
       /\ allowed_queries' = r.allowed
       /\ open_requ_vari' = r.vari
       /\ running' = ~r.crashed
       /\ com_reply' = r.reply
       /\ control_pub' = r.pub
    /\ fw_reply' = NoFwReply
    /\ polled' = "com_socket"
    /\ UNCHANGED store_data

\* a message on com_socket: check_signal_inverted, then react_to_signal or the
\* error reply
ComRequest(in_message, leak) ==
    /\ running
    /\ LET check_failed == check_signal_inverted(in_message)
           r == IF check_failed = <<>>
                THEN react_to_signal(in_message.signal,
                                     convert_socket_to_fqdn(in_message.targets), leak)
                ELSE [perm |-> open_requ_perm, node |-> next_requ_node,
                      allowed |-> allowed_queries, vari |-> open_requ_vari,
                      reply |-> check_failed, pub |-> NoPub, crashed |-> FALSE]
       IN
       /\ Len(r.perm) <= MaxNodesets
       /\ Len(r.allowed) <= MaxNodesets
       /\ open_requ_perm' = r.perm
       /\ next_requ_node' = r.node
       /\ allowed_queries' = r.allowed
       /\ open_requ_vari' = r.vari
       /\ running' = ~r.crashed
       /\ com_reply' = r.reply
       /\ control_pub' = r.pub
    /\ fw_reply' = NoFwReply
    /\ polled' = "com_socket"
    /\ UNCHANGED store_data

\* [GET_REQUESTS, filename] on request_fw_socket
GetRequests(filename) ==
    /\ running
    /\ LET r == get_requests(open_requ_perm, next_requ_node, open_requ_vari,
                             filename)
       IN
       /\ next_requ_node' = r.node
       /\ open_requ_vari' = r.vari
       /\ fw_reply' = [answered |-> ~r.failed, open_requests |-> r.open_requests]
    /\ com_reply' = <<>>
    /\ control_pub' = NoPub
    /\ polled' = "request_fw_socket"
    /\ UNCHANGED <<open_requ_perm, allowed_queries, running, store_data>>

\* the appends of a NEXT for one query nodeset
RequestedOf(node_set, incoming_socket_id) ==
    SelectSeq(node_set, LAMBDA e : e[1] = incoming_socket_id)

\* [NEXT, socket id] on request_socket; the append raises IndexError when the
\* nodeset has no pending queue
NextRequest(socket_id) ==
    /\ running
    /\ LET incoming_socket_id == FqdnId(socket_id)
           crashed == \E index \in DOMAIN allowed_queries :
                         /\ index > Len(open_requ_vari)
                         /\ RequestedOf(allowed_queries[index],
                                        incoming_socket_id) # <<>>
           vari == [index \in DOMAIN open_requ_vari |->
                      IF index \in DOMAIN allowed_queries
                      THEN open_requ_vari[index]
                           \o RequestedOf(allowed_queries[index], incoming_socket_id)
                      ELSE open_requ_vari[index]]
       IN
       /\ \A index \in DOMAIN vari : Len(vari[index]) <= MaxPending
       /\ open_requ_vari' = vari
       /\ running' = ~crashed
    /\ com_reply' = <<>>
    /\ fw_reply' = NoFwReply
    /\ control_pub' = NoPub
    /\ polled' = "request_socket"
    /\ UNCHANGED <<open_requ_perm, next_requ_node, allowed_queries, store_data>>

\* CancelRequest emptying the pending queues, whoever the entries belong to
CancelRequest_all(socket_id) ==
    /\ running
    /\ open_requ_vari' = [a \in DOMAIN open_requ_vari |-> <<>>]
    /\ com_reply' = <<>>
    /\ fw_reply' = NoFwReply
    /\ control_pub' = NoPub
    /\ polled' = "request_socket"
    /\ UNCHANGED <<open_requ_perm, next_requ_node, allowed_queries, running,
                   store_data>>

\* [CANCEL, socket id] on request_socket
CancelRequest(socket_id) ==
    /\ running
    /\ LET incoming_socket_id == FqdnId(socket_id) IN
       open_requ_vari' =
          [a \in DOMAIN open_requ_vari |->
              SelectSeq(open_requ_vari[a], LAMBDA b : b[1] # incoming_socket_id)]
    /\ com_reply' = <<>>
    /\ fw_reply' = NoFwReply
    /\ control_pub' = NoPub
    /\ polled' = "request_socket"
    /\ UNCHANGED <<open_requ_perm, next_requ_node, allowed_queries, running,
                   store_data>>

\* a message on request_socket that has the signal frame only ([NEXT] or
\* [CANCEL]): in_message[1] raises IndexError, which nothing catches
RequestWithoutId ==
    /\ running
    /\ running' = FALSE
    /\ com_reply' = <<>>
    /\ fw_reply' = NoFwReply
    /\ control_pub' = NoPub
    /\ polled' = "request_socket"
    /\ UNCHANGED <<open_requ_perm, next_requ_node, allowed_queries,
                   open_requ_vari, store_data>>

(***************************************************************************)
(* Inputs.                                                                 *)
(***************************************************************************)
HostShort == <<"h">>
HostFull == <<"h", "desy", "de">>
HostOther == <<"x">>

SuffixCbf == <<".", "c", "b", "f">>

\* targets [socket id, prio, suffix list] a request can name: the same host
\* under its short and its full name, three ports, and a host that is not on
\* the whitelist
TargetA == << <<HostShort, 6005>>, 1, <<>> >>
TargetB == << <<HostFull, 6006>>, 1, <<SuffixCbf>> >>
TargetC == << <<HostFull, 6007>>, 2, <<>> >>
TargetX == << <<HostOther, 6005>>, 1, <<>> >>

StreamSignals ==
    {"START_STREAM", "START_STREAM_METADATA", "STOP_STREAM", "STOP_STREAM_METADATA"}

QuerySignals ==
    {"START_QUERY_NEXT", "START_QUERY_METADATA", "STOP_QUERY_NEXT",
     "STOP_QUERY_METADATA"}

ComMessage(version, signal, targets) ==
    [frames |-> 3, json_ok |-> TRUE, version |-> version, signal |-> signal,
     targets |-> targets]

\* requests of the sender's version for the given signals and target pool
Requests(signals, pool) ==
    {ComMessage(SenderVersion, s, t) : s \in signals, t \in SeqsUpTo(pool, MaxTargets)}

\* requests that register nothing: no or an unknown signal, GET_VERSION, and
\* other versions (patch differs, minor differs, major differs, no patch,
\* no version)
\* for allowed and for other hosts
OtherRequests ==
    {ComMessage(SenderVersion, s, t) :
        s \in {"GET_VERSION", "FOO", ""}, t \in {<<>>, <<TargetA>>, <<TargetX>>}}
    \cup {ComMessage(v, "START_STREAM", t) :
             v \in {<<4, 0, 1>>, <<4, 1, 7>>, <<3, 0, 7>>, <<4, 0>>, <<>>},
             t \in {<<TargetA>>, <<TargetX>>}}

\* requests a peer can send that are not of the form [version, signal,
\* json-targets]: a missing frame, targets that json.loads cannot decode, and
\* target entries of no, one and two fields
MalformedRequests ==
    {[ComMessage(SenderVersion, s, <<TargetA>>) EXCEPT !.frames = 2] :
        s \in {"START_STREAM", "STOP_QUERY_NEXT"}}
    \cup {[ComMessage(SenderVersion, s, <<>>) EXCEPT !.json_ok = FALSE] :
             s \in {"START_STREAM", "STOP_QUERY_NEXT"}}
    \cup {ComMessage(SenderVersion, s, <<t>>) :
             s \in {"START_STREAM", "START_QUERY_NEXT", "STOP_STREAM"},
             t \in {<<>>, <<TargetA[1]>>, <<TargetA[1], 1>>}}

RequestIds == {<<HostShort, 6005>>, <<HostFull, 6006>>, <<HostFull, 6007>>}

FileIds ==
    { <<"a", ".", "c", "b", "f">>, <<"b", ".", "l", "o", "g">> }

(***************************************************************************)
(* The SignalHandler serving its three sockets.                            *)
(***************************************************************************)
\* Python 2 or 3 matters to a STOP only
Leaks(in_message) ==
    IF in_message.signal \in {"STOP_STREAM", "STOP_STREAM_METADATA",
                              "STOP_QUERY_NEXT", "STOP_QUERY_METADATA"}
    THEN BOOLEAN ELSE {TRUE}

ComStep(messages) ==
    \E in_message \in messages : \E leak \in Leaks(in_message) :
       ComRequest(in_message, leak)

(***************************************************************************)
(* Bookkeeping of what was delivered, for the properties below.            *)
(***************************************************************************)
VARIABLES
    burst,     \* the GET_REQUESTS since the last request on com_socket
    issued,    \* NEXT requests received, per socket id
    granted    \* files granted out of a pending queue, per socket id

histvars == <<burst, issued, granted>>

EndpointIds == {FqdnId(id) : id \in RequestIds}

\* no GET_REQUESTS yet: the cursors the burst starts with, and per nodeset
\* and member the number of files it was sent; ok[k]: every file of the burst
\* matched the pattern of every member of nodeset k
FreshBurst(registered_ids, cursors) ==
    [len |-> 0,
     start |-> cursors,
     deliv |-> [k \in DOMAIN registered_ids |->
                  [p \in DOMAIN registered_ids[k] |-> 0]],
     ok |-> [k \in DOMAIN registered_ids |-> TRUE]]

RECURSIVE Count(_, _)
Count(served, x) ==
    IF served = <<>> THEN 0
    ELSE (IF Head(served) = x THEN 1 ELSE 0) + Count(Tail(served), x)

HistInit ==
    /\ burst = FreshBurst(<<>>, <<>>)
    /\ issued = [id \in EndpointIds |-> 0]
    /\ granted = [id \in EndpointIds |-> 0]

\* a request on com_socket ends the burst
BurstReset == burst' = FreshBurst(open_requ_perm', next_requ_node')

\* a GET_REQUESTS adds the members it emitted to the burst
BurstCount(filename) ==
    LET r == get_requests(open_requ_perm, next_requ_node, open_requ_vari, filename)
    IN
    /\ burst.len < MaxBurst
    /\ burst' =
          [burst EXCEPT
             !.len = @ + 1,
             !.deliv = [k \in DOMAIN @ |->
                          [p \in DOMAIN @[k] |->
                              @[k][p] + Count(r.served, <<k, p - 1>>)]],
             !.ok = [k \in DOMAIN @ |->
                       /\ @[k]
                       /\ \A p \in DOMAIN open_requ_perm[k] :
                             PatternMatch(open_requ_perm[k][p][3], filename)]]

\* the grants of a GET_REQUESTS, per socket id
GrantCount(filename) ==
    LET emitted == VariEmitted(open_requ_vari, filename) IN
    granted' = [id \in EndpointIds |->
                  granted[id]
                  + Cardinality({k \in DOMAIN emitted : emitted[k][1] = id})]

NextCount(socket_id) ==
    /\ issued[FqdnId(socket_id)] < MaxNext
    /\ issued' = [issued EXCEPT ![FqdnId(socket_id)] = @ + 1]

(***************************************************************************)
(* The data path of one file: the file fetcher of a DataDispatcher, the    *)
(* receiving side of the transfer API, and the Cleaner.  Bytes are small   *)
(* integers, a file is a sequence of bytes.                                *)
(***************************************************************************)
\* a truthy remove_data: True or "with_confirmation"
Truthy(remove_data) == remove_data # "False"

\* file_descriptor.read(chunksize) for the chunk_number-th read of the loop
ReadChunk(content, chunksize, chunk_number) ==
    SubSeq(content, chunk_number * chunksize + 1,
           Min((chunk_number + 1) * chunksize, Len(content)))

\* a header without chunk_number (the metadata message of finish)
NoChunk == 0 - 1

\* send_to_targets: the targets are served in list order; a send that fails
\* raises (DataHandlingError for priority 0, the error of the non-blocking
\* send otherwise) and the targets behind it are not served.  fail names the
\* one send that fails, as <<chunk number, socket id>>, if any.
\* st.sent: the chunk numbers send_multipart was called with, per socket id;
\* st.channel: the messages that reached the peer, per socket id
RECURSIVE send_to_targets(_, _, _, _, _)
send_to_targets(targets_, message, fail, st, j) ==
    IF j > Len(targets_) THEN st
    ELSE
    LET target == targets_[j][1]
        prio == targets_[j][2]
        tried == [st EXCEPT !.sent[target] = Append(@, message.chunk_number)]
    IN
    IF fail = <<message.chunk_number, target>>
    THEN [tried EXCEPT !.error = IF prio = 0 THEN "DataHandlingError"
                                 ELSE "Again"]
    ELSE send_to_targets(targets_, message, fail,
                         [tried EXCEPT !.channel[target] = Append(@, message)],
                         j + 1)

\* the while loop of DataFetcher.send_data
RECURSIVE SendLoop(_, _, _, _, _)
SendLoop(targets_data, metadata_, content, fail, st) ==
    LET file_content == ReadChunk(content, metadata_.chunksize, st.chunk_number) IN
    IF file_content = <<>> THEN st
    ELSE
    LET chunk_payload == [chunk_number |-> st.chunk_number,
                          payload |-> file_content,
                          filesize |-> metadata_.filesize,
                          chunksize |-> metadata_.chunksize,
                          confirmation_required |-> metadata_.confirmation_required]
        r == send_to_targets(targets_data, chunk_payload, fail,
                             [sent |-> st.sent, channel |-> st.channel,
                              error |-> "none"], 1)
    IN
    SendLoop(targets_data, metadata_, content, fail,
             [chunk_number |-> st.chunk_number + 1,
              sent |-> r.sent,
              channel |-> r.channel,
              send_error |-> st.send_error \/ r.error = "DataHandlingError"])

\* send_data marking the file removable as soon as it was sent, whatever
\* remove_data says
send_data_unconfirmed(targets_, metadata_, config_, content, sent_, channel_, fail) ==
    LET targets_data == SelectSeq(targets_, LAMBDA i : i[4] = "data")
        nothing == [chunk_number |-> 0, sent |-> sent_, channel |-> channel_,
                    send_error |-> FALSE]
    IN
    IF targets_ = <<>> \/ targets_data = <<>>
    THEN nothing @@ [remove_flag |-> TRUE]
    ELSE
    LET st == SendLoop(targets_data, metadata_, content, fail, nothing) IN
    st @@ [remove_flag |-> ~st.send_error]

\* DataFetcher.send_data: remove_flag, and what was sent
send_data(targets_, metadata_, config_, content, sent_, channel_, fail) ==
    LET targets_data == SelectSeq(targets_, LAMBDA i : i[4] = "data")
        nothing == [chunk_number |-> 0, sent |-> sent_, channel |-> channel_,
                    send_error |-> FALSE]
    IN
    IF targets_ = <<>> \/ targets_data = <<>>
    THEN nothing @@ [remove_flag |-> TRUE]
    ELSE
    LET st == SendLoop(targets_data, metadata_, content, fail, nothing) IN
    st @@ [remove_flag |->
              IF config_.remove_data = "with_confirmation" THEN FALSE
              ELSE ~st.send_error]

\* the final-chunk test without its second alternative
check_file_closed_short(payload, m) == Len(payload) < m.chunksize

\* Transfer.check_file_closed
check_file_closed(payload, m) ==
    \/ Len(payload) < m.chunksize
    \/ /\ m.filesize % m.chunksize = 0
       /\ m.filesize = m.chunksize * (m.chunk_number + 1)

\* Transfer.store_data_chunk for one received chunk: descriptors[filepath]
\* is open or not, written is the content of the target file
store_data_chunk(descriptor_open, written, chunk) ==
    LET was_closed == ~descriptor_open
        content == IF was_closed THEN chunk.payload ELSE written \o chunk.payload
        closed == check_file_closed(chunk.payload, chunk)
    IN [descriptor_open |-> ~closed,
        written |-> content,
        confirmation |-> was_closed /\ chunk.confirmation_required,
        run_loop |-> ~closed]

\* Transfer.get: the position of the first chunk, from position i on, that
\* closes the file; 0 if there is none yet
RECURSIVE ClosingChunk(_, _)
ClosingChunk(chunks, i) ==
    IF i > Len(chunks) THEN 0
    ELSE IF check_file_closed(chunks[i].payload, chunks[i]) THEN i
    ELSE ClosingChunk(chunks, i + 1)

\* b"".join(all_data)
RECURSIVE JoinPayloads(_, _, _)
JoinPayloads(chunks, i, last) ==
    IF i > last THEN <<>>
    ELSE chunks[i].payload \o JoinPayloads(chunks, i + 1, last)

VARIABLES
    config,          \* DataFetcher.config: store_data, remove_data, remove_flag, chunksize
    targets,         \* the target list of the work item
    metadata,        \* the metadata dictionary of the work item
    source_file,     \* the bytes of the source file
    source_exists,   \* the source file is still in the source directory
    local_exists,    \* the file is in the local target
    pc,              \* what the dispatcher calls next for the work item
    send_error,      \* send_error of the last send_data
    sent,            \* per socket id, the chunk numbers handed to send_multipart
    channel,         \* per socket id, the messages that reached the peer
    store_pos,       \* the messages of channel the storing receiver has read
    descriptor_open, \* the storing receiver has the target file open
    written,         \* the bytes of the target file of the storing receiver
    get_pos,         \* the messages of channel the querying consumer has read
    all_data,        \* what the last Transfer.get of the consumer returned
    confirmations,   \* confirmations on their way to the Cleaner
    withheld,        \* confirmations that were not published
    cleaner          \* the Cleaner's record of the file

tvars == <<config, targets, metadata, source_file, source_exists, local_exists,
           pc, send_error, sent, channel, store_pos, descriptor_open, written,
           get_pos, all_data, confirmations, withheld, cleaner>>

\* the fixed storage stream (priority 0, Transfer.store), a consumer calling
\* Transfer.get, and a consumer of metadata
IdStore == <<HostFull, 50100>>
IdApi == <<HostFull, 50101>>
IdMeta == <<HostFull, 50102>>
TransferIds == {IdStore, IdApi, IdMeta}

TargetStore == <<IdStore, 0, <<>>, "data">>
TargetApi == <<IdApi, 1, <<>>, "data">>
TargetMeta == <<IdMeta, 1, <<>>, "metadata">>

WorkItems ==
    { <<>>, <<TargetMeta>>, <<TargetStore>>, <<TargetApi>>,
      <<TargetStore, TargetApi>>, <<TargetStore, TargetApi, TargetMeta>> }

\* a file of n bytes, all different
Bytes(n) == [i \in 1..n |-> i]

\* the state of the data path for a configuration, a work item and a file;
\* the dispatcher has stamped the confirmation topic into the metadata
FetcherInit(remove_datas, chunksizes, work_items, sizes) ==
    /\ config \in [store_data : {store_data}, remove_data : remove_datas,
                   remove_flag : {FALSE}, chunksize : chunksizes]
    /\ targets \in work_items
    /\ source_file \in {Bytes(n) : n \in sizes}
    /\ metadata = [filesize |-> 0, chunksize |-> 0,
                   confirmation_required |-> config.remove_data = "with_confirmation"]
    /\ source_exists = TRUE
    /\ local_exists = FALSE
    /\ send_error = FALSE
    /\ sent = [id \in TransferIds |-> <<>>]
    /\ channel = [id \in TransferIds |-> <<>>]
    /\ store_pos = 0
    /\ descriptor_open = FALSE
    /\ written = <<>>
    /\ get_pos = 0
    /\ all_data = <<>>
    /\ confirmations = 0
    /\ withheld = 0
    /\ cleaner = [known |-> FALSE, total_chunks |-> 0, chunks_seen |-> 0]

\* DataFetcher.get_metadata
GetMetadata ==
    /\ pc = "get_metadata"
    /\ metadata' = IF targets # <<>>
                   THEN [metadata EXCEPT !.filesize = Len(source_file),
                                         !.chunksize = config.chunksize]
                   ELSE metadata
    /\ pc' = "send_data"
    /\ UNCHANGED <<config, targets, source_file, source_exists, local_exists,
                   send_error, sent, channel, store_pos, descriptor_open,
                   written, get_pos, all_data, confirmations, withheld, cleaner>>

\* the dispatcher hands the expected chunk count to the Cleaner after the
\* last chunk of a file whose removal has to be confirmed
NotifyCleaner(chunks) ==
    IF config.remove_data = "with_confirmation"
    THEN [cleaner EXCEPT !.known = TRUE, !.total_chunks = chunks]
    ELSE cleaner

\* DataFetcher.send_data
SendData(fail) ==
    /\ pc = "send_data"
    /\ LET r == send_data(targets, metadata, config, source_file, sent, channel,
                          fail)
       IN
       /\ config' = [config EXCEPT !.remove_flag = r.remove_flag]
       /\ sent' = r.sent
       /\ channel' = r.channel
       /\ send_error' = r.send_error
       /\ cleaner' = IF \E j \in DOMAIN targets : targets[j][4] = "data"
                     THEN NotifyCleaner(r.chunk_number)
                     ELSE cleaner
    /\ pc' = "finish"
    /\ UNCHANGED <<targets, metadata, source_file, source_exists, local_exists,
                   store_pos, descriptor_open, written, get_pos, all_data,
                   confirmations, withheld>>

\* DataFetcher.send_data when the priority-0 target never acknowledges chunk
\* k: the chunks before it are sent, the targets in front of the priority-0
\* target are served with chunk k, the chunk is handed to the tracked
\* send_multipart and the worker is in tracker.wait(), which has no timeout
SendDataWaiting(k) ==
    /\ pc = "send_data"
    /\ \E j \in DOMAIN targets : targets[j][4] = "data" /\ targets[j][2] = 0
    /\ ReadChunk(source_file, metadata.chunksize, k) # <<>>
    /\ LET targets_data == SelectSeq(targets, LAMBDA i : i[4] = "data")
           waiting == (CHOOSE j \in DOMAIN targets_data : targets_data[j][2] = 0)
           before == send_data(targets, metadata, config,
                               SubSeq(source_file, 1, k * metadata.chunksize),
                               sent, channel, <<>>)
           chunk_payload == [chunk_number |-> k,
                             payload |-> ReadChunk(source_file, metadata.chunksize, k),
                             filesize |-> metadata.filesize,
                             chunksize |-> metadata.chunksize,
                             confirmation_required |-> metadata.confirmation_required]
           r == send_to_targets(targets_data, chunk_payload,
                                <<k, targets_data[waiting][1]>>,
                                [sent |-> before.sent, channel |-> before.channel,
                                 error |-> "none"], 1)
       IN
       /\ sent' = r.sent
       /\ channel' = r.channel
    /\ config' = [config EXCEPT !.remove_flag = FALSE]
    /\ pc' = "tracker.wait"
    /\ UNCHANGED <<targets, metadata, source_file, source_exists, local_exists,
                   send_error, store_pos, descriptor_open, written, get_pos,
                   all_data, confirmations, withheld, cleaner>>

\* finish moving or removing the source file whatever remove_flag says
Finish_unflagged(io_ok, fail) ==
    /\ pc = "finish"
    /\ LET targets_metadata == SelectSeq(targets, LAMBDA i : i[4] = "metadata")
           ok == io_ok /\ source_exists
           move == config.store_data /\ Truthy(config.remove_data)
           copy == ~move /\ config.store_data
           remove == ~move /\ ~copy /\ Truthy(config.remove_data)
           returned == (move \/ copy) /\ ~ok
           header == [chunk_number |-> NoChunk, payload |-> <<>>,
                      filesize |-> metadata.filesize,
                      chunksize |-> metadata.chunksize,
                      confirmation_required |-> metadata.confirmation_required]
           r == IF returned THEN [sent |-> sent, channel |-> channel]
                ELSE send_to_targets(targets_metadata, header, fail,
                                     [sent |-> sent, channel |-> channel,
                                      error |-> "none"], 1)
       IN
       /\ source_exists' = IF (move \/ remove) /\ ok THEN FALSE ELSE source_exists
       /\ local_exists' = IF (move \/ copy) /\ ok THEN TRUE ELSE local_exists
       /\ config' = IF remove THEN [config EXCEPT !.remove_flag = FALSE] ELSE config
       /\ sent' = r.sent
       /\ channel' = r.channel
    /\ pc' = "done"
    /\ UNCHANGED <<targets, metadata, source_file, send_error, store_pos,
                   descriptor_open, written, get_pos, all_data, confirmations,
                   withheld, cleaner>>

\* finish going on to the metadata targets after a failed move or copy
Finish_regardless(io_ok, fail) ==
    /\ pc = "finish"
    /\ LET targets_metadata == SelectSeq(targets, LAMBDA i : i[4] = "metadata")
           ok == io_ok /\ source_exists
           move == config.store_data /\ Truthy(config.remove_data)
                   /\ config.remove_flag
           copy == ~move /\ config.store_data
           remove == ~move /\ ~copy /\ Truthy(config.remove_data)
                     /\ config.remove_flag
           header == [chunk_number |-> NoChunk, payload |-> <<>>,
                      filesize |-> metadata.filesize,
                      chunksize |-> metadata.chunksize,
                      confirmation_required |-> metadata.confirmation_required]
           r == send_to_targets(targets_metadata, header, fail,
                                [sent |-> sent, channel |-> channel,
                                 error |-> "none"], 1)
       IN
       /\ source_exists' = IF (move \/ remove) /\ ok THEN FALSE ELSE source_exists
       /\ local_exists' = IF (move \/ copy) /\ ok THEN TRUE ELSE local_exists
       /\ config' = IF remove THEN [config EXCEPT !.remove_flag = FALSE] ELSE config
       /\ sent' = r.sent
       /\ channel' = r.channel
    /\ pc' = "done"
    /\ UNCHANGED <<targets, metadata, source_file, send_error, store_pos,
                   descriptor_open, written, get_pos, all_data, confirmations,
                   withheld, cleaner>>

\* DataFetcher.finish; io_ok: shutil.move, shutil.copy or os.remove succeeds
Finish(io_ok, fail) ==
    /\ pc = "finish"
    /\ LET targets_metadata == SelectSeq(targets, LAMBDA i : i[4] = "metadata")
           ok == io_ok /\ source_exists
           move == config.store_data /\ Truthy(config.remove_data)
                   /\ config.remove_flag
           copy == ~move /\ config.store_data
           remove == ~move /\ ~copy /\ Truthy(config.remove_data)
                     /\ config.remove_flag
           returned == (move \/ copy) /\ ~ok
           header == [chunk_number |-> NoChunk, payload |-> <<>>,
                      filesize |-> metadata.filesize,
                      chunksize |-> metadata.chunksize,
                      confirmation_required |-> metadata.confirmation_required]
           r == IF returned THEN [sent |-> sent, channel |-> channel]
                ELSE send_to_targets(targets_metadata, header, fail,
                                     [sent |-> sent, channel |-> channel,
                                      error |-> "none"], 1)
       IN
       /\ source_exists' = IF (move \/ remove) /\ ok THEN FALSE ELSE source_exists
       /\ local_exists' = IF (move \/ copy) /\ ok THEN TRUE ELSE local_exists
       /\ config' = IF remove THEN [config EXCEPT !.remove_flag = FALSE] ELSE config
       /\ sent' = r.sent
       /\ channel' = r.channel
    /\ pc' = "done"
    /\ UNCHANGED <<targets, metadata, source_file, send_error, store_pos,
                   descriptor_open, written, get_pos, all_data, confirmations,
                   withheld, cleaner>>

\* Transfer.store of the storing receiver takes the next chunk;
\* withhold: its confirmation does not reach the Cleaner
StoreDataChunk(withhold) ==
    /\ store_pos < Len(channel[IdStore])
    /\ LET chunk == channel[IdStore][store_pos + 1]
           r == store_data_chunk(descriptor_open, written, chunk)
       IN
       /\ descriptor_open' = r.descriptor_open
       /\ written' = r.written
       /\ IF ~r.confirmation THEN withhold = FALSE /\ UNCHANGED <<confirmations, withheld>>
          ELSE IF withhold THEN withheld' = withheld + 1 /\ UNCHANGED confirmations
          ELSE confirmations' = confirmations + 1 /\ UNCHANGED withheld
    /\ store_pos' = store_pos + 1
    /\ UNCHANGED <<config, targets, metadata, source_file, source_exists,
                   local_exists, pc, send_error, sent, channel, get_pos,
                   all_data, cleaner>>

\* Transfer.get of the querying consumer: returns when a chunk closes the file
Get ==
    /\ LET last == ClosingChunk(channel[IdApi], get_pos + 1) IN
       /\ last > 0
       /\ all_data' = JoinPayloads(channel[IdApi], get_pos + 1, last)
       /\ get_pos' = last
    /\ UNCHANGED <<config, targets, metadata, source_file, source_exists,
                   local_exists, pc, send_error, sent, channel, store_pos,
                   descriptor_open, written, confirmations, withheld, cleaner>>

\* the Cleaner takes one confirmation of the file: it counts it, and when all
\* expected chunks are confirmed it deletes the source file or moves it to
\* the local target
CleanerConfirm ==
    /\ confirmations > 0
    /\ confirmations' = confirmations - 1
    /\ LET seen == cleaner.chunks_seen + 1
           complete == cleaner.known /\ seen = cleaner.total_chunks
       IN
       /\ cleaner' = [cleaner EXCEPT !.chunks_seen = seen]
       /\ source_exists' = IF complete THEN FALSE ELSE source_exists
       /\ local_exists' = IF complete /\ source_exists /\ config.store_data
                          THEN TRUE ELSE local_exists
    /\ UNCHANGED <<config, targets, metadata, source_file, pc, send_error, sent,
                   channel, store_pos, descriptor_open, written, get_pos,
                   all_data, withheld>>

\* the sends of a work item that can fail: none, or one chunk to one data
\* target, or the metadata message
SendFailures ==
    {<<>>}
    \cup {<<k, id>> : k \in 0..(MaxFileSize - 1), id \in {IdStore, IdApi}}
    \cup {<<NoChunk, IdMeta>>}

(***************************************************************************)
(* The DataManager: the test of the fixed streaming host, the main loop of *)
(* run, stop and the SIGTERM handler.                                      *)
(***************************************************************************)
\* the number of passes through the loop of run that are followed
MaxProbes == 4
\* the number of times SIGTERM is delivered
MaxSignals == 1
\* the number of calls of stop after the one of __init__
MaxStops == 1

VARIABLES
    dm_pc,              \* where the main flow of the DataManager is
    use_data_stream,    \* a fixed streaming host is configured
    control_pub_socket, \* "None", "open" or "closed" (None again, after close)
    test_socket,        \* the socket of the test message exists
    context,            \* the ZMQ context exists
    sleep_was_sent,     \* sleep_was_sent of run
    dm_log,             \* the outcomes of the tests made in the loop of run and
                        \* the control messages published, in order
    signals,            \* how often SIGTERM was delivered
    stop_calls          \* how often stop was called again

dmvars == <<dm_pc, use_data_stream, control_pub_socket, test_socket, context,
            sleep_was_sent, dm_log, signals, stop_calls>>

\* DataManager.__init__ up to the try block; streams: the configured values
\* of use_data_stream
DataManagerInit(streams) ==
    /\ dm_pc = "__init__"
    /\ use_data_stream \in streams
    /\ control_pub_socket = "None"
    /\ test_socket = FALSE
    /\ context = TRUE
    /\ sleep_was_sent = FALSE
    /\ dm_log = <<>>
    /\ signals = 0
    /\ stop_calls = 0

\* DataManager.test_fixed_streaming_host; ok: the test message is sent in
\* time.  Without a context the creation of test_socket raises, which is
\* caught and answered by False.
test_fixed_streaming_host(ok) ==
    IF ~use_data_stream
    THEN [result |-> TRUE, test_socket |-> test_socket]
    ELSE IF ~test_socket /\ ~context
    THEN [result |-> FALSE, test_socket |-> FALSE]
    ELSE [result |-> ok, test_socket |-> TRUE]

\* the try block of DataManager.__init__ up to the loop of run; outcome:
\* create_sockets raises, or the SignalHandler is not alive after its start,
\* or everything is running
Startup(ok, outcome) ==
    /\ dm_pc = "__init__"
    /\ LET probe == test_fixed_streaming_host(ok)
           raises == outcome = "raise" \/ ~context
       IN
       /\ test_socket' = probe.test_socket
       /\ control_pub_socket' = IF probe.result /\ ~raises THEN "open"
                                ELSE control_pub_socket
       /\ dm_pc' = IF probe.result /\ ~raises /\ outcome = "running"
                   THEN "run" ELSE "stop"
    /\ sleep_was_sent' = FALSE
    /\ UNCHANGED <<use_data_stream, context, dm_log, signals, stop_calls>>

\* the tests made in the loop of run
Probes == SelectSeq(dm_log, LAMBDA e : e \in {"ok", "failed"})

\* one pass through the loop of run publishing WAKEUP after every test that
\* succeeds
RunLoop_wakeup(ok) ==
    /\ dm_pc = "run"
    /\ Len(Probes) < MaxProbes
    /\ LET probe == test_fixed_streaming_host(ok)
           signal == IF probe.result THEN "WAKEUP" ELSE "SLEEP"
           outcome == IF probe.result THEN "ok" ELSE "failed"
       IN
       /\ test_socket' = probe.test_socket
       /\ IF control_pub_socket = "open"
          THEN /\ dm_log' = dm_log \o <<outcome, signal>>
               /\ sleep_was_sent' = ~probe.result
               /\ dm_pc' = dm_pc
          ELSE /\ dm_log' = Append(dm_log, outcome)
               /\ dm_pc' = "stop"
               /\ sleep_was_sent' = sleep_was_sent
    /\ UNCHANGED <<use_data_stream, control_pub_socket, context, signals,
                   stop_calls>>

\* one pass through the loop of DataManager.run, all processes being alive;
\* a send on a control_pub_socket that is None raises and ends run
RunLoop(ok) ==
    /\ dm_pc = "run"
    /\ Len(Probes) < MaxProbes
    /\ LET probe == test_fixed_streaming_host(ok)
           publishes == ~probe.result \/ sleep_was_sent
           signal == IF probe.result THEN "WAKEUP" ELSE "SLEEP"
           outcome == IF probe.result THEN "ok" ELSE "failed"
       IN
       /\ test_socket' = probe.test_socket
       /\ IF ~publishes
          THEN /\ dm_log' = Append(dm_log, outcome)
               /\ UNCHANGED <<dm_pc, sleep_was_sent>>
          ELSE IF control_pub_socket = "open"
          THEN /\ dm_log' = dm_log \o <<outcome, signal>>
               /\ sleep_was_sent' = ~probe.result
               /\ dm_pc' = dm_pc
          ELSE /\ dm_log' = Append(dm_log, outcome)
               /\ dm_pc' = "stop"
               /\ sleep_was_sent' = sleep_was_sent
    /\ UNCHANGED <<use_data_stream, control_pub_socket, context, signals,
                   stop_calls>>

\* a process has terminated, or the user interrupts: run is left
RunExit ==
    /\ dm_pc = "run"
    /\ dm_pc' = "stop"
    /\ UNCHANGED <<use_data_stream, control_pub_socket, test_socket, context,
                   sleep_was_sent, dm_log, signals, stop_calls>>

\* DataManager.stop up to time.sleep(0.5)
StopPublish ==
    /\ dm_pc = "stop"
    /\ dm_log' = IF control_pub_socket = "open" THEN Append(dm_log, "EXIT")
                 ELSE dm_log
    /\ dm_pc' = "time.sleep"
    /\ UNCHANGED <<use_data_stream, control_pub_socket, test_socket, context,
                   sleep_was_sent, signals, stop_calls>>

\* DataManager.stop after time.sleep(0.5)
StopClose ==
    /\ dm_pc = "time.sleep"
    /\ control_pub_socket' = IF control_pub_socket = "open" THEN "closed"
                             ELSE control_pub_socket
    /\ test_socket' = FALSE
    /\ context' = FALSE
    /\ dm_pc' = "stopped"
    /\ UNCHANGED <<use_data_stream, sleep_was_sent, dm_log, signals, stop_calls>>

\* stop is called again (__exit__, __del__, the main program)
StopAgain ==
    /\ dm_pc = "stopped"
    /\ stop_calls < MaxStops
    /\ stop_calls' = stop_calls + 1
    /\ dm_pc' = "stop"
    /\ UNCHANGED <<use_data_stream, control_pub_socket, test_socket, context,
                   sleep_was_sent, dm_log, signals>>

\* DataManager.signal_term_handler: SIGTERM is delivered, the handler runs
\* stop inside the main thread, which then goes on where it was
SignalTerm ==
    /\ signals < MaxSignals
    /\ signals' = signals + 1
    /\ dm_log' = IF control_pub_socket = "open" THEN Append(dm_log, "EXIT")
                 ELSE dm_log
    /\ control_pub_socket' = IF control_pub_socket = "open" THEN "closed"
                             ELSE control_pub_socket
    /\ test_socket' = FALSE
    /\ context' = FALSE
    /\ UNCHANGED <<dm_pc, use_data_stream, sleep_was_sent, stop_calls>>

(***************************************************************************)
(* The status of a receiver that stores (Transfer.store, get_chunk).       *)
(***************************************************************************)
\* the number of requests on status_check_socket that are followed
MaxStatusRequests == 2

VARIABLES
    status,          \* Transfer.status
    status_reply,    \* the last reply on status_check_socket
    status_request,  \* the last request on status_check_socket
    status_requests  \* the number of requests on status_check_socket served

rcvars == <<status, status_reply, status_request, status_requests>>

StatusOk == <<"OK">>

ReceiverInit ==
    /\ status = StatusOk
    /\ status_reply = <<>>
    /\ status_request = ""
    /\ status_requests = 0

\* the requests on status_check_socket
StatusRequests == {"STATUS_CHECK", "RESET_STATUS", "CLOSE_FILE"}

\* the handling of a request where STATUS_CHECK resets the status as well
StatusRequest_resetting(message) ==
    /\ status_requests < MaxStatusRequests
    /\ status_requests' = status_requests + 1
    /\ status_request' = message
    /\ IF message = "STATUS_CHECK"
       THEN status_reply' = status /\ status' = StatusOk
       ELSE IF message = "RESET_STATUS"
       THEN status' = StatusOk /\ status_reply' = StatusOk
       ELSE status_reply' = <<"ERROR">> /\ status' = status

\* Transfer.get_chunk: a request on status_check_socket
StatusRequest(message) ==
    /\ status_requests < MaxStatusRequests
    /\ status_requests' = status_requests + 1
    /\ status_request' = message
    /\ IF message = "STATUS_CHECK"
       THEN status_reply' = status /\ status' = status
       ELSE IF message = "RESET_STATUS"
       THEN status' = StatusOk /\ status_reply' = StatusOk
       ELSE status_reply' = <<"ERROR">> /\ status' = status

\* what store_data_chunk raises: open or write fail, or a confirmation is
\* asked for and the receiver has no confirmation socket
StoreErrors == {"IOError", "UsageError"}

\* str(exc_value) of the error
ErrorValue(error) ==
    IF error = "UsageError" THEN "Option 'confirmation' is not enabled"
    ELSE "No space left on device"

\* Transfer.store takes the next chunk and store_data_chunk raises: the
\* status becomes the error and store returns.  With UsageError the target
\* file was opened and the payload written before.
StoreDataChunkFails(error) ==
    /\ store_pos < Len(channel[IdStore])
    /\ LET chunk == channel[IdStore][store_pos + 1] IN
       IF error = "UsageError"
       THEN /\ ~descriptor_open
            /\ chunk.confirmation_required
            /\ descriptor_open' = TRUE
            /\ written' = chunk.payload
       ELSE UNCHANGED <<descriptor_open, written>>
    /\ store_pos' = store_pos + 1
    /\ status' = <<"ERROR", error, ErrorValue(error)>>
    /\ UNCHANGED <<status_reply, status_request, status_requests>>
    /\ UNCHANGED <<config, targets, metadata, source_file, source_exists,
                   local_exists, pc, send_error, sent, channel, get_pos,
                   all_data, confirmations, withheld, cleaner>>

(***************************************************************************)
(* A NEXUS receiver in Transfer.read: the CLOSE_FILE request of the client *)
(* on status_check_socket and the CLOSE_FILE markers of the dispatchers on *)
(* data_socket.                                                            *)
(***************************************************************************)
\* the largest number of DataDispatchers
MaxStreams == 3
\* the number of files that are followed
MaxFiles == 2

VARIABLES
    number_of_streams, \* Transfer.number_of_streams, NoStreams for None
    recvd_close_from,  \* Transfer.recvd_close_from
    reply_to_signal,   \* Transfer.reply_to_signal, NoSignal for False
    all_close_recvd,   \* Transfer.all_close_recvd
    file_opened,       \* Transfer.file_opened
    read_pc,           \* the application is in read, or read has returned
    read_reply,        \* the last reply on status_check_socket
    dispatchers,       \* the number N of DataDispatchers of the sender
    close_requested,   \* the CLOSE_FILE request of the current file was received
    markers,           \* the dispatchers whose marker of the current file was received
    closed_files,      \* how often the close callback was invoked
    files              \* the number of the current file

nxvars == <<number_of_streams, recvd_close_from, reply_to_signal,
            all_close_recvd, file_opened, read_pc, read_reply, dispatchers,
            close_requested, markers, closed_files, files>>

NoStreams == 0
NoSignal == <<>>
CloseFile == <<"CLOSE_FILE">>
OpenFile == <<"OPEN_FILE">>

\* the state of the Transfer object when read is called the first time;
\* streams: the numbers of dispatchers
NexusInit(streams) ==
    /\ number_of_streams = NoStreams
    /\ recvd_close_from = <<>>
    /\ reply_to_signal = NoSignal
    /\ all_close_recvd = FALSE
    /\ file_opened = FALSE
    /\ read_pc = "read"
    /\ read_reply = <<>>
    /\ dispatchers \in streams
    /\ close_requested = FALSE
    /\ markers = {}
    /\ closed_files = 0
    /\ files = 1

\* the id k/N of DataDispatcher k
DispatcherId(k) == <<k, dispatchers>>

\* int(id.split("/")[1])
StreamsOf(id) == id[2]

\* __react_on_message taking the first marker for all of them
react_on_message_first(id) ==
    [number_of_streams |-> StreamsOf(id),
     recvd_close_from |-> IF reply_to_signal # NoSignal THEN <<>>
                          ELSE Append(recvd_close_from, id),
     reply_to_signal |-> NoSignal,
     all_close_recvd |-> reply_to_signal = NoSignal \/ all_close_recvd,
     read_reply |-> IF reply_to_signal # NoSignal THEN reply_to_signal ELSE read_reply,
     run_loop |-> reply_to_signal = NoSignal]

\* Transfer.__react_on_message for a CLOSE_FILE marker of the dispatcher id
react_on_message(id) ==
    LET received == Append(recvd_close_from, id)
        streams == IF number_of_streams = NoStreams THEN StreamsOf(id)
                   ELSE number_of_streams
        arrived == Len(received) = streams
        answers == arrived /\ reply_to_signal # NoSignal
    IN
    [number_of_streams |-> streams,
     recvd_close_from |-> IF answers THEN <<>> ELSE received,
     reply_to_signal |-> IF answers THEN NoSignal ELSE reply_to_signal,
     all_close_recvd |-> (arrived /\ ~answers) \/ all_close_recvd,
     read_reply |-> IF answers THEN reply_to_signal ELSE read_reply,
     run_loop |-> ~answers]

\* Transfer.read: the CLOSE_FILE request of the client for the current file
ReadCloseRequest ==
    /\ read_pc = "read"
    /\ ~close_requested
    /\ close_requested' = TRUE
    /\ IF all_close_recvd
       THEN /\ read_reply' = CloseFile
            /\ all_close_recvd' = FALSE
            /\ closed_files' = closed_files + 1
            /\ read_pc' = "returned"
            /\ UNCHANGED reply_to_signal
       ELSE /\ reply_to_signal' = CloseFile
            /\ UNCHANGED <<read_reply, all_close_recvd, closed_files, read_pc>>
    /\ UNCHANGED <<number_of_streams, recvd_close_from, file_opened,
                   dispatchers, markers, files>>

\* Transfer.read: the OPEN_FILE request of the client for the current file
ReadOpenRequest ==
    /\ read_pc = "read"
    /\ ~close_requested
    /\ ~file_opened
    /\ read_reply' = OpenFile
    /\ file_opened' = TRUE
    /\ UNCHANGED <<number_of_streams, recvd_close_from, reply_to_signal,
                   all_close_recvd, read_pc, dispatchers, close_requested,
                   markers, closed_files, files>>

\* Transfer.read: the CLOSE_FILE marker of dispatcher k for the current file
ReadMarker(k) ==
    /\ read_pc = "read"
    /\ k \notin markers
    /\ markers' = markers \cup {k}
    /\ LET r == react_on_message(DispatcherId(k)) IN
       /\ number_of_streams' = r.number_of_streams
       /\ recvd_close_from' = r.recvd_close_from
       /\ reply_to_signal' = r.reply_to_signal
       /\ all_close_recvd' = r.all_close_recvd
       /\ read_reply' = r.read_reply
       /\ closed_files' = IF r.run_loop THEN closed_files ELSE closed_files + 1
       /\ read_pc' = IF r.run_loop THEN read_pc ELSE "returned"
    /\ UNCHANGED <<file_opened, dispatchers, close_requested, files>>

\* the application calls read for the next file
ReadNextFile ==
    /\ read_pc = "returned"
    /\ files < MaxFiles
    /\ files' = files + 1
    /\ read_pc' = "read"
    /\ close_requested' = FALSE
    /\ markers' = {}
    /\ file_opened' = FALSE
    /\ UNCHANGED <<number_of_streams, recvd_close_from, reply_to_signal,
                   all_close_recvd, read_reply, dispatchers, closed_files>>

(***************************************************************************)
(* The pattern of one subscription on its own: START converts the suffix   *)
(* list of a target into a regex, GET_REQUESTS matches a file name         *)
(* against it.                                                             *)
(***************************************************************************)
MaxSuffixes == 2

VARIABLES suffix_list, file_name, compiled, match_result, match_pc

mtvars == <<suffix_list, file_name, compiled, match_result, match_pc>>

SuffixLog == <<".", "l", "o", "g">>
Suffixes == {SuffixCbf, SuffixLog, <<>>}

FileNames ==
    { <<"a", ".", "c", "b", "f">>,
      <<"s", "u", "b", "/", "a", ".", "c", "b", "f">>,
      <<"a", ".", "c", "b", "f", ".", "p", "a", "r", "t">>,
      <<"a", "x", "c", "b", "f">>,
      <<"b", ".", "l", "o", "g">>,
      <<"c", "b", "f">> }

\* no pattern compiled, nothing matched yet
NoRegex == <<"None">>

MatchInit(lists, names) ==
    /\ suffix_list \in lists
    /\ file_name \in names
    /\ compiled = NoRegex
    /\ match_result = "None"
    /\ match_pc = "start"

\* START_*: the target's suffix list becomes its compiled pattern
CompilePattern ==
    /\ match_pc = "start"
    /\ compiled' = convert_suffix_list_to_regex(suffix_list)
    /\ match_pc' = "registered"
    /\ UNCHANGED <<suffix_list, file_name, match_result>>

\* GET_REQUESTS: pattern.match(filename) decides whether the target is listed
MatchFileName ==
    /\ match_pc = "registered"
    /\ match_result' = IF PatternMatch(compiled, file_name) THEN "match"
                       ELSE "no match"
    /\ match_pc' = "matched"
    /\ UNCHANGED <<suffix_list, file_name, compiled>>

(***************************************************************************)
(* The synchronizing event detector: the Synchronizing thread reads the    *)
(* file messages of the detectors and collects the path templates of full  *)
(* sets in synced_data, get_new_event hands them out.  A path is the       *)
(* sequence of its parts, the last part being the detector id.  A block    *)
(* under "with self.lock" is one step.                                     *)
(***************************************************************************)
\* the number of messages the Synchronizing thread reads
MaxMessages == 4
\* the number of calls of get_new_event
MaxCalls == 3

VARIABLES synced_data, sync_buffer, sync_thread, event_pc, event_lists,
          read_paths

syvars == <<synced_data, sync_buffer, sync_thread, event_pc, event_lists,
            read_paths>>

\* config: detids, n_detectors, buffer_size, source_path
detids == {"DET0", "DET1"}
n_detectors == 2
buffer_size == 4
source_path == "my_dir"

\* synced_data = None
NoneData == <<<<"None">>>>

\* the files of the images a, b, c, one per detector
MessagePaths ==
    {<<source_path, "sub", image, detid>> :
        image \in {"a", "b", "c"}, detid \in detids}

SyncInit ==
    /\ synced_data = <<>>
    /\ sync_buffer = <<>>
    /\ sync_thread = "running"
    /\ event_pc = "idle"
    /\ event_lists = <<>>
    /\ read_paths = {}

\* str(msg_path).replace(found_detector, "{}")
PathTemplate(msg_path, found_detector) ==
    [i \in DOMAIN msg_path |->
        IF msg_path[i] = found_detector THEN "{}" ELSE msg_path[i]]

\* collections.deque(maxlen=buffer_size).append
DequeAppend(deque, item) ==
    IF Len(deque) < buffer_size THEN Append(deque, item)
    ELSE Append(Tail(deque), item)

\* Synchronizing.run: one message of the topic.  synced_data.append raises
\* AttributeError when synced_data is None; run re-raises and the thread ends.
SynchronizingRun(msg_path) ==
    /\ sync_thread = "running"
    /\ Cardinality(read_paths) < MaxMessages
    /\ msg_path \notin read_paths
    /\ read_paths' = read_paths \cup {msg_path}
    /\ LET found_detector == CHOOSE detid \in detids :
                                \E i \in DOMAIN msg_path : msg_path[i] = detid
           path_tmpl == PathTemplate(msg_path, found_detector)
           buffer == DequeAppend(sync_buffer,
                                 [path_tmpl |-> path_tmpl,
                                  detid |-> found_detector])
           file_set == SelectSeq(buffer, LAMBDA i : i.path_tmpl = path_tmpl)
       IN
       /\ sync_buffer' = buffer
       /\ IF Len(file_set) = n_detectors
          THEN IF synced_data = NoneData
               THEN sync_thread' = "raised" /\ UNCHANGED synced_data
               ELSE synced_data' = Append(synced_data, path_tmpl)
                    /\ UNCHANGED sync_thread
          ELSE UNCHANGED <<synced_data, sync_thread>>
    /\ UNCHANGED <<event_pc, event_lists>>

\* the event message of a path template
EventMessage(path) ==
    [source_path |-> source_path,
     relative_path |-> Tail(path),
     filename |-> SubSeq(path, Len(path) - 1, Len(path))]

\* get_new_event: "if synced_data:", read without the lock
GetNewEventCheck ==
    /\ event_pc = "idle"
    /\ Len(event_lists) < MaxCalls
    /\ IF synced_data # NoneData /\ synced_data # <<>>
       THEN event_pc' = "with self.lock" /\ UNCHANGED event_lists
       ELSE event_lists' = Append(event_lists, <<>>) /\ UNCHANGED event_pc
    /\ UNCHANGED <<synced_data, sync_buffer, sync_thread, read_paths>>

\* get_new_event: the block under the lock and the return
GetNewEventCollect ==
    /\ event_pc = "with self.lock"
    /\ event_lists' = Append(event_lists,
                             [i \in DOMAIN synced_data |->
                                 EventMessage(synced_data[i])])
    /\ synced_data' = NoneData
    /\ event_pc' = "idle"
    /\ UNCHANGED <<sync_buffer, sync_thread, read_paths>>

yvars == <<mtvars, syvars>>

\* a pattern nobody has registered, an event detector that has read nothing
Unused == MatchInit({<<>>}, {<<"a", ".", "c", "b", "f">>}) /\ SyncInit

xvars == <<dmvars, rcvars, nxvars>>

\* the DataManager before its start, a receiver and a NEXUS receiver that
\* have received nothing
Idle == DataManagerInit({TRUE}) /\ ReceiverInit /\ NexusInit({1}) /\ Unused

(***************************************************************************)
(* Spec: the SignalHandler serving its three sockets, both registries, one *)
(* host on the whitelist.                                                  *)
(***************************************************************************)
vars == <<shvars, histvars, tvars, xvars, yvars>>

\* no file is on its way
NoFile == FetcherInit({"False"}, {1}, {<<>>}, {0}) /\ pc = "done"

Init == ShInit /\ HistInit /\ NoFile /\ Idle

\* what the peers send on com_socket
SpecRequests ==
    Requests(StreamSignals \cup QuerySignals, {TargetA, TargetX})
    \cup OtherRequests \cup MalformedRequests

Next ==
    \/ /\ ComStep(SpecRequests)
       /\ UNCHANGED <<histvars, tvars, xvars, yvars>>
    \/ /\ \E filename \in FileIds : GetRequests(filename)
       /\ UNCHANGED <<histvars, tvars, xvars, yvars>>
    \/ /\ \E socket_id \in RequestIds : NextRequest(socket_id)
       /\ UNCHANGED <<histvars, tvars, xvars, yvars>>
    \/ /\ \E socket_id \in RequestIds : CancelRequest(socket_id)
       /\ UNCHANGED <<histvars, tvars, xvars, yvars>>
    \/ /\ RequestWithoutId
       /\ UNCHANGED <<histvars, tvars, xvars, yvars>>

Spec == Init /\ [][Next]_vars

(***************************************************************************)
(* SpecStream: the stream registry with three consumers, and the           *)
(* deliveries of every burst of GET_REQUESTS.                              *)
(***************************************************************************)
StreamNext ==
    \/ /\ ComStep(Requests({"START_STREAM", "STOP_STREAM"},
                          {TargetA, TargetB, TargetC}))
       /\ BurstReset
       /\ UNCHANGED <<issued, granted, tvars, xvars, yvars>>
    \/ /\ \E filename \in FileIds : GetRequests(filename) /\ BurstCount(filename)
       /\ UNCHANGED <<issued, granted, tvars, xvars, yvars>>

\* storing is enabled
StreamInit == Init /\ store_data = TRUE

SpecStream == StreamInit /\ [][StreamNext]_vars

(***************************************************************************)
(* SpecQuery: the query registry with two consumers, NEXT and CANCEL, and  *)
(* the number of files granted to every consumer.                          *)
(***************************************************************************)
QueryIds == {TargetA[1], TargetB[1]}

QueryNext ==
    \/ /\ ComStep(Requests({"START_QUERY_NEXT", "STOP_QUERY_NEXT"},
                          {TargetA, TargetB}))
       /\ UNCHANGED <<histvars, tvars, xvars, yvars>>
    \/ /\ \E filename \in FileIds : GetRequests(filename) /\ GrantCount(filename)
       /\ UNCHANGED <<burst, issued, tvars, xvars, yvars>>
    \/ /\ \E socket_id \in QueryIds : NextRequest(socket_id) /\ NextCount(socket_id)
       /\ UNCHANGED <<burst, granted, tvars, xvars, yvars>>
    \/ /\ \E socket_id \in QueryIds : CancelRequest(socket_id)
       /\ UNCHANGED <<histvars, tvars, xvars, yvars>>

\* storing is enabled
QueryInit == Init /\ store_data = TRUE

SpecQuery == QueryInit /\ [][QueryNext]_vars

(***************************************************************************)
(* SpecTransfer: one work item on its way from the source directory to its *)
(* consumers, for every removal policy, with and without local storing.    *)
(***************************************************************************)
TransferInit ==
    /\ ShInit
    /\ HistInit
    /\ FetcherInit({"True", "False", "with_confirmation"}, 1..MaxChunkSize,
                   WorkItems, 0..MaxFileSize)
    /\ pc = "get_metadata"
    /\ Idle

TransferNext ==
    \/ GetMetadata /\ UNCHANGED <<shvars, histvars, xvars, yvars>>
    \/ /\ \E fail \in SendFailures : SendData(fail)
       /\ UNCHANGED <<shvars, histvars, xvars, yvars>>
    \/ /\ \E k \in 0..(MaxFileSize - 1) : SendDataWaiting(k)
       /\ UNCHANGED <<shvars, histvars, xvars, yvars>>
    \/ /\ \E io_ok \in BOOLEAN, fail \in SendFailures : Finish(io_ok, fail)
       /\ UNCHANGED <<shvars, histvars, xvars, yvars>>
    \/ /\ \E withhold \in BOOLEAN : StoreDataChunk(withhold)
       /\ UNCHANGED <<shvars, histvars, xvars, yvars>>
    \/ Get /\ UNCHANGED <<shvars, histvars, xvars, yvars>>
    \/ CleanerConfirm /\ UNCHANGED <<shvars, histvars, xvars, yvars>>

SpecTransfer == TransferInit /\ [][TransferNext]_vars

(***************************************************************************)
(* SpecSupervisor: the DataManager from its start to its end, with and     *)
(* without a fixed streaming host, and SIGTERM.                            *)
(***************************************************************************)
SupervisorInit ==
    /\ ShInit
    /\ HistInit
    /\ NoFile
    /\ DataManagerInit(BOOLEAN)
    /\ ReceiverInit
    /\ NexusInit({1})
    /\ Unused

SupervisorNext ==
    \/ /\ \E ok \in BOOLEAN, outcome \in {"raise", "not_alive", "running"} :
             Startup(ok, outcome)
       /\ UNCHANGED <<shvars, histvars, tvars, rcvars, nxvars, yvars>>
    \/ /\ \E ok \in BOOLEAN : RunLoop(ok)
       /\ UNCHANGED <<shvars, histvars, tvars, rcvars, nxvars, yvars>>
    \/ RunExit /\ UNCHANGED <<shvars, histvars, tvars, rcvars, nxvars, yvars>>
    \/ StopPublish /\ UNCHANGED <<shvars, histvars, tvars, rcvars, nxvars, yvars>>
    \/ StopClose /\ UNCHANGED <<shvars, histvars, tvars, rcvars, nxvars, yvars>>
    \/ StopAgain /\ UNCHANGED <<shvars, histvars, tvars, rcvars, nxvars, yvars>>
    \/ SignalTerm /\ UNCHANGED <<shvars, histvars, tvars, rcvars, nxvars, yvars>>

SpecSupervisor == SupervisorInit /\ [][SupervisorNext]_vars

(***************************************************************************)
(* SpecReceiver: a file on its way to the storing receiver, whose storing  *)
(* can fail, and the requests on its status_check_socket.                  *)
(***************************************************************************)
StoringInit ==
    /\ ShInit
    /\ HistInit
    /\ FetcherInit({"False", "with_confirmation"}, 1..MaxChunkSize,
                   {<<TargetStore>>}, 1..MaxFileSize)
    /\ pc = "get_metadata"
    /\ DataManagerInit({TRUE})
    /\ ReceiverInit
    /\ NexusInit({1})
    /\ Unused

ReceiverNext ==
    \/ GetMetadata /\ UNCHANGED <<shvars, histvars, xvars, yvars>>
    \/ /\ \E fail \in SendFailures : SendData(fail)
       /\ UNCHANGED <<shvars, histvars, xvars, yvars>>
    \/ /\ \E io_ok \in BOOLEAN, fail \in SendFailures : Finish(io_ok, fail)
       /\ UNCHANGED <<shvars, histvars, xvars, yvars>>
    \/ /\ \E withhold \in BOOLEAN : StoreDataChunk(withhold)
       /\ UNCHANGED <<shvars, histvars, xvars, yvars>>
    \/ /\ \E error \in StoreErrors : StoreDataChunkFails(error)
       /\ UNCHANGED <<shvars, histvars, dmvars, nxvars, yvars>>
    \/ /\ \E message \in StatusRequests : StatusRequest(message)
       /\ UNCHANGED <<shvars, histvars, tvars, dmvars, nxvars, yvars>>

SpecReceiver == StoringInit /\ [][ReceiverNext]_vars

(***************************************************************************)
(* SpecNexus: a NEXUS receiver of a sender with one to three               *)
(* DataDispatchers, reading one file after the other.                      *)
(***************************************************************************)
ReadInit ==
    /\ ShInit
    /\ HistInit
    /\ NoFile
    /\ DataManagerInit({TRUE})
    /\ ReceiverInit
    /\ NexusInit(1..MaxStreams)
    /\ Unused

NexusNext ==
    \/ ReadCloseRequest /\ UNCHANGED <<shvars, histvars, tvars, dmvars, rcvars, yvars>>
    \/ ReadOpenRequest /\ UNCHANGED <<shvars, histvars, tvars, dmvars, rcvars, yvars>>
    \/ /\ \E k \in 0..(dispatchers - 1) : ReadMarker(k)
       /\ UNCHANGED <<shvars, histvars, tvars, dmvars, rcvars, yvars>>
    \/ ReadNextFile /\ UNCHANGED <<shvars, histvars, tvars, dmvars, rcvars, yvars>>

SpecNexus == ReadInit /\ [][NexusNext]_vars

(***************************************************************************)
(* SpecMatch: one suffix list registered and one file name matched         *)
(* against its pattern.                                                    *)
(***************************************************************************)
PatternInit ==
    /\ ShInit
    /\ HistInit
    /\ NoFile
    /\ DataManagerInit({TRUE})
    /\ ReceiverInit
    /\ NexusInit({1})
    /\ MatchInit(SeqsUpTo(Suffixes, MaxSuffixes), FileNames)
    /\ SyncInit

MatchNext ==
    \/ CompilePattern /\ UNCHANGED <<shvars, histvars, tvars, xvars, syvars>>
    \/ MatchFileName /\ UNCHANGED <<shvars, histvars, tvars, xvars, syvars>>

SpecMatch == PatternInit /\ [][MatchNext]_vars

(***************************************************************************)
(* SpecSync: the Synchronizing thread and the calls of get_new_event, in   *)
(* every interleaving.                                                     *)
(***************************************************************************)
DetectorInit ==
    /\ ShInit
    /\ HistInit
    /\ NoFile
    /\ Idle

SyncNext ==
    \/ /\ \E msg_path \in MessagePaths : SynchronizingRun(msg_path)
       /\ UNCHANGED <<shvars, histvars, tvars, xvars, mtvars>>
    \/ GetNewEventCheck /\ UNCHANGED <<shvars, histvars, tvars, xvars, mtvars>>
    \/ GetNewEventCollect /\ UNCHANGED <<shvars, histvars, tvars, xvars, mtvars>>

SpecSync == DetectorInit /\ [][SyncNext]_vars

(***************************************************************************)
(* Properties of the SignalHandler.                                        *)
(***************************************************************************)

\* C1: round-robin fairness over a burst.  For a stream nodeset of n distinct
\* members whose patterns matched every file of the burst, after m GET_REQUESTS with
\* no request on com_socket in between, the member at position p has been
\* sent as many files as there are j < m with (cursor at the start + j) mod n
\* = p: the members are served one after the other from the cursor on, m mod
\* n of them ceil(m/n) times and the others floor(m/n) times.
C1_RoundRobinBurst ==
    \A k \in DOMAIN open_requ_perm :
       LET n == Len(open_requ_perm[k]) IN
       (n > 0 /\ Cardinality(IdSet(open_requ_perm[k])) = n /\ burst.ok[k]) =>
          \A p \in 1..n :
             burst.deliv[k][p] =
                Cardinality({j \in 0..(burst.len - 1) :
                                (burst.start[k] + j) % n = p - 1})

\* C2: no registry holds two nodesets that overlap without one containing
\* the other (a START that partially overlaps a registered nodeset is not
\* registered).
C2_NestedOrDisjoint ==
    \A registered_ids \in {open_requ_perm, allowed_queries} :
       \A i, j \in DOMAIN registered_ids :
          i < j =>
             LET a == IdSet(registered_ids[i])
                 b == IdSet(registered_ids[j])
             IN a \cap b = {} \/ a \subseteq b \/ b \subseteq a

\* C3: every registered socket id is a member of exactly one nodeset of
\* exactly one registry.
C3_OneNodeset ==
    LET places == {<<"perm", k>> : k \in DOMAIN open_requ_perm}
                  \cup {<<"vari", k>> : k \in DOMAIN allowed_queries}
        members(place) ==
            IF place[1] = "perm" THEN IdSet(open_requ_perm[place[2]])
            ELSE IdSet(allowed_queries[place[2]])
    IN \A place \in places : \A id \in members(place) :
          \A other \in places \ {place} : id \notin members(other)

\* C4: a query consumer has never been granted more files than it has sent
\* NEXT requests.
C4_GrantsWithinNexts ==
    \A id \in EndpointIds : granted[id] <= issued[id]

\* C5: the reply to one GET_REQUESTS does not list a socket id twice.
C5_ReplyDuplicateFree ==
    \A i, j \in DOMAIN fw_reply.open_requests :
       i < j => fw_reply.open_requests[i][1] # fw_reply.open_requests[j][1]

\* C10 as stated: a request (three frames, decodable) naming a host that is
\* not on the allow-list, neither as given nor without .desy.de, is answered
\* NO_VALID_HOST and changes nothing.
C10_NoValidHostAlways ==
    [][LET other_host(in_message) ==
              \E i \in DOMAIN in_message.targets :
                 LET host == in_message.targets[i][1][1] IN
                 host \notin whitelist /\ StripDesyDe(host) \notin whitelist
          requests == Requests(StreamSignals \cup QuerySignals,
                               {TargetA, TargetX})
                      \cup OtherRequests
      IN
      \A in_message \in {m \in requests : other_host(m)} :
          ComRequest(in_message, TRUE) =>
             /\ com_reply' = <<"NO_VALID_HOST">>
             /\ UNCHANGED <<open_requ_perm, next_requ_node, allowed_queries,
                            open_requ_vari>>]_vars

\* C10: a request naming a host that is not on the allow-list changes
\* nothing; it is answered NO_VALID_HOST when its version is compatible (or
\* empty) and its signal is not empty, VERSION_CONFLICT when its version is
\* not compatible, and NO_VALID_SIGNAL otherwise: the version is checked
\* before the hosts, and the hosts only of a request that carries a signal.
C10_NoValidHost ==
    [][LET other_host(in_message) ==
              \E i \in DOMAIN in_message.targets :
                 LET host == in_message.targets[i][1][1] IN
                 host \notin whitelist /\ StripDesyDe(host) \notin whitelist
          requests == Requests(StreamSignals \cup QuerySignals,
                               {TargetA, TargetX})
                      \cup OtherRequests
      IN
      \A in_message \in {m \in requests : other_host(m)} :
          ComRequest(in_message, TRUE) =>
             /\ UNCHANGED <<open_requ_perm, next_requ_node, allowed_queries,
                            open_requ_vari>>
             /\ com_reply' =
                   IF in_message.version # <<>>
                      /\ VersionBase(in_message.version) # VersionBase(SenderVersion)
                   THEN <<"VERSION_CONFLICT", "__version__">>
                   ELSE IF in_message.signal # "" THEN <<"NO_VALID_HOST">>
                   ELSE <<"NO_VALID_SIGNAL">>]_vars

\* a request was answered NO_VALID_HOST while a consumer is registered
C10_Witness ==
    com_reply = <<"NO_VALID_HOST">> /\ open_requ_perm # <<>>

(***************************************************************************)
(* Properties of the data path.                                            *)
(***************************************************************************)

\* C6 as stated: with remove_data = with_confirmation the source file is gone
\* only if as many confirmations of the file were observed as the file has
\* chunks, whatever the target list of the work item is.
C6_RemovedOnlyConfirmed ==
    (config.remove_data = "with_confirmation" /\ ~source_exists) =>
       cleaner.chunks_seen * config.chunksize >= Len(source_file)

\* C6: with remove_data = with_confirmation the source file of a work item
\* that has at least one data target is gone only if as many confirmations
\* of the file were observed as the file has chunks; a work item without
\* data targets (an empty target list, or metadata targets only) is marked
\* removable by send_data and removed or moved by finish without any
\* confirmation.
C6_RemovedOnlyConfirmedData ==
    (/\ config.remove_data = "with_confirmation"
     /\ ~source_exists
     /\ \E j \in DOMAIN targets : targets[j][4] = "data") =>
       cleaner.chunks_seen * config.chunksize >= Len(source_file)

\* a file sent to a data target was removed under with_confirmation
C6_Witness ==
    /\ config.remove_data = "with_confirmation"
    /\ ~source_exists
    /\ \E j \in DOMAIN targets : targets[j][4] = "data"
    /\ Len(channel[IdStore]) > 0

\* C7, on finite runs: with remove_data = with_confirmation and the storing
\* priority-0 consumer among the targets, once the work item is finished,
\* every chunk of the file has reached the consumer and was stored, no
\* confirmation was withheld and none is on its way any more, the source
\* file is gone.  (Nothing that is still enabled then removes the file.)
C7_RemovedWhenAllStored ==
    (/\ config.remove_data = "with_confirmation"
     /\ \E j \in DOMAIN targets : targets[j] = TargetStore
     /\ pc = "done"
     /\ Len(source_file) > 0
     /\ Len(channel[IdStore]) * config.chunksize >= Len(source_file)
     /\ store_pos = Len(channel[IdStore])
     /\ withheld = 0
     /\ confirmations = 0) =>
       ~source_exists

\* C8: for every data consumer, the payloads of the chunks it received, up
\* to and including the first final chunk, joined in order, are the bytes of
\* the source file.
C8_ChunksJoinToSource ==
    \A id \in {IdStore, IdApi} :
       LET last == ClosingChunk(channel[id], 1) IN
       last > 0 => JoinPayloads(channel[id], 1, last) = source_file

\* C9: the chunk numbers of the chunks sent to a data target are 0, 1, 2, ...
\* in this order.
C9_ChunkNumbersGapless ==
    \A id \in {IdStore, IdApi} :
       \A i \in DOMAIN sent[id] : sent[id][i] = i - 1

(***************************************************************************)
(* Properties of the requests on com_socket.                               *)
(***************************************************************************)
VersionConflict == <<"VERSION_CONFLICT", "__version__">>

\* the part of a version string before its last dot is not the sender's
\* (for the empty string it is the empty string)
OtherMajorMinor(version) == VersionBase(version) # VersionBase(SenderVersion)

\* C11 as stated: a request is answered VERSION_CONFLICT if and only if its
\* version differs from the sender's in the part before the last dot.
C11_VersionHandshakeAlways ==
    [][polled' = "com_socket" =>
         \A in_message \in SpecRequests : \A leak \in BOOLEAN :
            \/ com_reply' = VersionConflict <=> OtherMajorMinor(in_message.version)
            \/ ~ComRequest(in_message, leak)]_vars

\* C11: a request of three frames whose targets decode to entries that start
\* with a socket id, and whose version string is not empty, is answered
\* VERSION_CONFLICT with the sender's version if its version differs from the
\* sender's in the part before the last dot, and is not answered
\* VERSION_CONFLICT if that part agrees, whatever the patch; a request with
\* an empty version string or of another form is never answered
\* VERSION_CONFLICT.
C11_VersionHandshake ==
    [][polled' = "com_socket" =>
         \A in_message \in SpecRequests : \A leak \in BOOLEAN :
            \/ com_reply' = VersionConflict <=>
                  /\ in_message.frames = 3
                  /\ in_message.json_ok
                  /\ \A i \in DOMAIN in_message.targets :
                        Len(in_message.targets[i]) > 0
                  /\ in_message.version # <<>>
                  /\ OtherMajorMinor(in_message.version)
            \/ ~ComRequest(in_message, leak)]_vars

\* a request was answered VERSION_CONFLICT while a consumer is registered
C11_Witness ==
    com_reply = VersionConflict /\ open_requ_perm # <<>>

StoringDisabled == <<"STORING_DISABLED", "__version__">>

ErrorReplies ==
    {<<"NO_VALID_SIGNAL">>, VersionConflict, <<"NO_VALID_HOST">>, StoringDisabled,
     <<"NO_OPEN_CONNECTION_FOUND">>}

\* C12: a request on com_socket that is answered with an error reply
\* (NO_VALID_SIGNAL, VERSION_CONFLICT with the sender's version, NO_VALID_HOST,
\* STORING_DISABLED, NO_OPEN_CONNECTION_FOUND) leaves both registries, the
\* cursors and the pending queues as they were and publishes nothing on
\* control_pub_socket.
C12_ErrorReplyNoChange ==
    [][(polled' = "com_socket" /\ com_reply' \in ErrorReplies) =>
          /\ UNCHANGED <<open_requ_perm, next_requ_node, allowed_queries,
                         open_requ_vari>>
          /\ control_pub' = NoPub]_vars

\* a STOP was answered NO_OPEN_CONNECTION_FOUND while a stream consumer is
\* registered
C12_Witness ==
    com_reply = <<"NO_OPEN_CONNECTION_FOUND">> /\ open_requ_perm # <<>>

C14_NeverAborts == running

\* C15: every request handled on com_socket is answered: the step that
\* handles it sends a reply on com_socket.  (No path of the handler sends more
\* than one; com_reply is the one it sent, or empty.)
C15_OneReply ==
    [][polled' = "com_socket" => com_reply' # <<>>]_vars

(***************************************************************************)
(* Properties of the registries.                                           *)
(***************************************************************************)

\* C16: after a START_STREAM with a non-empty endpoint set E, the stream
\* registry holds exactly one nodeset whose endpoint set is a subset or a
\* superset of E: the new nodeset, with cursor 0; every nodeset that was
\* related to E in this way has been replaced.  The request is answered
\* START_STREAM.
C16_StartReplaces ==
    [][polled' = "com_socket" =>
         \A in_message \in Requests({"START_STREAM"}, {TargetA, TargetB, TargetC}) :
            (in_message.targets # <<>> /\ ComRequest(in_message, TRUE)) =>
               LET socket_ids == convert_socket_to_fqdn(in_message.targets)
                   E == IdSet(socket_ids)
                   related == {k \in DOMAIN open_requ_perm' :
                                  \/ E \subseteq IdSet(open_requ_perm'[k])
                                  \/ IdSet(open_requ_perm'[k]) \subseteq E}
               IN /\ com_reply' = <<"START_STREAM">>
                  /\ \E k \in DOMAIN open_requ_perm' :
                        /\ related = {k}
                        /\ open_requ_perm'[k] = NewNodeSet(socket_ids, "data")
                        /\ next_requ_node'[k] = 0]_vars

\* C17: no nodeset of the stream registry or of the query registry holds a
\* socket id twice.
C17_NodesetDuplicateFree ==
    \A registered_ids \in {open_requ_perm, allowed_queries} :
       \A k \in DOMAIN registered_ids :
          \A i, j \in DOMAIN registered_ids[k] :
             i < j => registered_ids[k][i][1] # registered_ids[k][j][1]

\* what the GET_REQUESTS for filename emitted out of stream nodeset k
EmittedOf(served, k) == SelectSeq(served, LAMBDA e : e[1] = k)

\* C18: on GET_REQUESTS, for every non-empty stream nodeset (of distinct
\* members) the pattern of the member at the nodeset's cursor decides: if it does not match the file
\* identifier, no member of the nodeset is emitted and the cursor stays; if
\* it matches, that member and no other is emitted and the cursor advances
\* by one modulo the size of the nodeset.
C18_CursorMemberOnly ==
    [][polled' = "request_fw_socket" =>
         \A filename \in FileIds :
            GetRequests(filename) =>
               LET r == get_requests(open_requ_perm, next_requ_node,
                                     open_requ_vari, filename)
               IN \A k \in DOMAIN open_requ_perm :
                     LET n == Len(open_requ_perm[k]) IN
                     (n > 0 /\ Cardinality(IdSet(open_requ_perm[k])) = n) =>
                        /\ k \in DOMAIN next_requ_node
                        /\ next_requ_node[k] < n
                        /\ LET cursor == next_requ_node[k]
                               member == open_requ_perm[k][cursor + 1]
                           IN IF PatternMatch(member[3], filename)
                              THEN /\ EmittedOf(r.served, k) = << <<k, cursor>> >>
                                   /\ next_requ_node'[k] = (cursor + 1) % n
                              ELSE /\ EmittedOf(r.served, k) = <<>>
                                   /\ next_requ_node'[k] = cursor]_vars

(***************************************************************************)
(* Properties of the pending queues.                                       *)
(***************************************************************************)
\* the number of pending entries of a socket id, over all queues
RECURSIVE PendingCount(_, _)
PendingCount(queues, id) ==
    IF queues = <<>> THEN 0
    ELSE Len(SelectSeq(Head(queues), LAMBDA e : e[1] = id))
         + PendingCount(Tail(queues), id)

\* C19: a CANCEL of a socket id leaves in every pending queue the entries of
\* the other socket ids, in their order, and none of the cancelled one, and
\* leaves the query registry, the stream registry and its cursors as they
\* were.  No file is granted to the socket id before it sends NEXT again:
\* only a NEXT of a socket id adds pending entries of it, and a socket id is
\* granted a file only out of a pending entry of it.
C19_CancelPurges ==
    [][/\ polled' = "request_socket" =>
             \A socket_id \in QueryIds :
                CancelRequest(socket_id) =>
                   /\ open_requ_vari' =
                         [a \in DOMAIN open_requ_vari |->
                             SelectSeq(open_requ_vari[a],
                                       LAMBDA e : e[1] # FqdnId(socket_id))]
                   /\ PendingCount(open_requ_vari', FqdnId(socket_id)) = 0
                   /\ UNCHANGED <<allowed_queries, open_requ_perm, next_requ_node>>
       /\ \A id \in EndpointIds :
             /\ PendingCount(open_requ_vari', id) > PendingCount(open_requ_vari, id)
                   => \E socket_id \in QueryIds :
                         FqdnId(socket_id) = id /\ NextRequest(socket_id)
             /\ granted'[id] > granted[id]
                   => PendingCount(open_requ_vari, id) > 0]_vars

\* the last request was a CANCEL or NEXT, a registered consumer that sent
\* NEXT and was granted nothing has no pending entry, and another consumer
\* still has one
C19_Witness ==
    /\ polled = "request_socket"
    /\ \E id \in EndpointIds :
          /\ issued[id] > 0
          /\ granted[id] = 0
          /\ \E k \in DOMAIN allowed_queries : id \in IdSet(allowed_queries[k])
          /\ PendingCount(open_requ_vari, id) = 0
          /\ \E other \in EndpointIds \ {id} :
                PendingCount(open_requ_vari, other) > 0

\* C20: pending entries of a socket id get fewer only when a file is granted
\* to it, when it sends CANCEL, when a STOP_QUERY_NEXT names it, or when a
\* START_QUERY_NEXT replaces a nodeset it is a member of; and after a
\* STOP_QUERY_NEXT that was answered STOP_QUERY_NEXT no pending queue holds
\* an entry of a socket id the request named.
C20_StopPurges ==
    [][/\ polled' = "com_socket" =>
             \A in_message \in Requests({"STOP_QUERY_NEXT"}, {TargetA, TargetB}) :
                \A leak \in BOOLEAN :
                   (/\ ComRequest(in_message, leak)
                    /\ com_reply' = <<"STOP_QUERY_NEXT">>) =>
                      \A i \in DOMAIN in_message.targets :
                         PendingCount(open_requ_vari',
                                      FqdnId(in_message.targets[i][1])) = 0
       /\ \A id \in EndpointIds :
             PendingCount(open_requ_vari', id) < PendingCount(open_requ_vari, id) =>
                \/ granted'[id] > granted[id]
                \/ \E socket_id \in QueryIds :
                      FqdnId(socket_id) = id /\ CancelRequest(socket_id)
                \/ /\ polled' = "com_socket"
                   /\ \E in_message \in Requests({"STOP_QUERY_NEXT"},
                                                  {TargetA, TargetB}) :
                         /\ \E leak \in BOOLEAN : ComRequest(in_message, leak)
                         /\ \E i \in DOMAIN in_message.targets :
                               FqdnId(in_message.targets[i][1]) = id
                \/ /\ polled' = "com_socket"
                   /\ \E in_message \in Requests({"START_QUERY_NEXT"},
                                                  {TargetA, TargetB}) :
                         /\ ComRequest(in_message, TRUE)
                         /\ LET E == IdSet(convert_socket_to_fqdn(in_message.targets))
                            IN \E k \in DOMAIN allowed_queries :
                                  /\ id \in IdSet(allowed_queries[k])
                                  /\ \/ E \subseteq IdSet(allowed_queries[k])
                                     \/ IdSet(allowed_queries[k]) \subseteq E]_vars

\* the socket ids registered in a registry
RegisteredIds(registered_ids) == IdSet(Flatten(registered_ids))

\* C21: a STOP_STREAM publishes CLOSE_SOCKETS if and only if it removed a
\* registered socket id from the stream registry, and the socket ids of the
\* message are the ones it removed.
C21_CloseSocketsRemoved ==
    [][polled' = "com_socket" =>
         \A in_message \in Requests({"STOP_STREAM"}, {TargetA, TargetB, TargetC}) :
            \A leak \in BOOLEAN :
               ComRequest(in_message, leak) =>
                  LET removed == RegisteredIds(open_requ_perm)
                                 \ RegisteredIds(open_requ_perm')
                  IN /\ control_pub'.signal = "CLOSE_SOCKETS" <=> removed # {}
                     /\ control_pub'.signal = "CLOSE_SOCKETS" =>
                           IdSet(control_pub'.socket_ids) = removed]_vars

(***************************************************************************)
(* Properties of the sending loop and of the finalize step.                *)
(***************************************************************************)
DataIds == {IdStore, IdApi}

\* chunk k was handed to send_multipart for id and did not reach the peer
SendFailed(id, k) ==
    /\ \E i \in DOMAIN sent[id] : sent[id][i] = k
    /\ \A m \in DOMAIN channel[id] : channel[id][m].chunk_number # k

\* a send of a chunk of the file to the priority-0 target failed
StoreSendFailed == \E k \in 0..(MaxFileSize - 1) : SendFailed(IdStore, k)

\* a send of a chunk of the file to a target of priority > 0 failed
ApiSendFailed == \E k \in 0..(MaxFileSize - 1) : SendFailed(IdApi, k)

\* C22: when the send of a chunk of a file fails, no later chunk of the file
\* is sent to any target.
C22_FailedChunkAborts ==
    \A id \in DataIds : \A k \in 0..(MaxFileSize - 1) :
       SendFailed(id, k) =>
          \A other \in DataIds : \A j \in DOMAIN sent[other] : sent[other][j] <= k

\* the file has n chunks
ChunkCount == (Len(source_file) + config.chunksize - 1) \div config.chunksize

\* the chunk numbers handed to send_multipart for id
SentNumbers(id) == {sent[id][i] : i \in DOMAIN sent[id]}

ConfirmationsMissing ==
    /\ config.remove_data = "with_confirmation"
    /\ \E j \in DOMAIN targets : targets[j][4] = "data"
    /\ cleaner.chunks_seen < ChunkCount

\* C24: a file whose transfer to the priority-0 target failed, or whose
\* required confirmations are missing, is neither copied or moved into the
\* local target nor removed from the source directory.
C24_OnlyAfterSuccess ==
    (pc \in {"finish", "done"} /\ (StoreSendFailed \/ ConfirmationsMissing)) =>
       source_exists /\ ~local_exists

\* the steps of the worker on its work item
WorkerStep ==
    \/ GetMetadata
    \/ \E fail \in SendFailures : SendData(fail)
    \/ \E k \in 0..(MaxFileSize - 1) : SendDataWaiting(k)
    \/ \E io_ok \in BOOLEAN, fail \in SendFailures : Finish(io_ok, fail)

\* C25: a tracked send to the priority-0 target never blocks the worker for
\* good: when the worker waits for the priority-0 target to acknowledge a
\* chunk, it has a step to take, also if the acknowledgement never comes.
C25_TrackedSendReturns == pc = "tracker.wait" => ENABLED WorkerStep

(***************************************************************************)
(* Properties of the final-chunk test.                                     *)
(***************************************************************************)
\* send_data has sent the whole chunk sequence of the file to the data target
\* id: no send of the work item failed
WholeFileSent(id) ==
    /\ pc \in {"finish", "done"}
    /\ \E j \in DOMAIN targets : targets[j][1] = id /\ targets[j][4] = "data"
    /\ \A d \in DataIds : \A k \in 0..(MaxFileSize - 1) : ~SendFailed(d, k)

\* the positions of the chunks received by id for which the final-chunk test
\* of the receiver is true
ClosingChunks(id) ==
    {i \in DOMAIN channel[id] :
        check_file_closed(channel[id][i].payload, channel[id][i])}

\* C26 as stated: for every file, the final-chunk test is true for exactly one
\* chunk of the chunk sequence sent for the file, the last one.
C26_OneFinalChunkAlways ==
    \A id \in DataIds :
       WholeFileSent(id) => ClosingChunks(id) = {Len(channel[id])}

\* C26: for every file that is not empty, the final-chunk test is true for
\* exactly one chunk of the chunk sequence sent for the file, the last one;
\* for an empty file no chunk is sent at all.
C26_OneFinalChunk ==
    \A id \in DataIds :
       WholeFileSent(id) =>
          IF Len(source_file) > 0
          THEN /\ Len(channel[id]) = ChunkCount
               /\ ClosingChunks(id) = {Len(channel[id])}
          ELSE channel[id] = <<>>

\* a file of several chunks whose size is a multiple of the chunksize was
\* sent as a whole
C26_Witness ==
    /\ WholeFileSent(IdStore)
    /\ Len(channel[IdStore]) > 1
    /\ Len(source_file) % config.chunksize = 0

(***************************************************************************)
(* Properties of the DataManager.                                          *)
(***************************************************************************)
\* EXIT was published before position i of dm_log
ExitBefore(i) == \E j \in 1..(i - 1) : dm_log[j] = "EXIT"

\* C27: in the loop of run, as long as EXIT was not published, SLEEP is
\* published after every test that fails and only then; WAKEUP is published
\* after a test that succeeds if and only if the test before it failed, so
\* that the last message before a WAKEUP is a SLEEP.
C27_SleepWakeup ==
    \A i \in DOMAIN dm_log :
       /\ dm_log[i] = "SLEEP" => i > 1 /\ dm_log[i - 1] = "failed"
       /\ dm_log[i] = "WAKEUP" =>
             i > 2 /\ dm_log[i - 1] = "ok" /\ dm_log[i - 2] = "SLEEP"
       /\ (dm_log[i] = "failed" /\ ~ExitBefore(i)) =>
             i < Len(dm_log) /\ dm_log[i + 1] = "SLEEP"
       /\ (dm_log[i] = "ok" /\ i > 1 /\ dm_log[i - 1] = "SLEEP") =>
             i < Len(dm_log) /\ dm_log[i + 1] = "WAKEUP"

\* two failed tests, a recovery, and a second test that succeeds
C27_Witness ==
    dm_log = <<"failed", "SLEEP", "failed", "SLEEP", "ok", "WAKEUP", "ok">>

\* the control messages the DataManager published
Published == SelectSeq(dm_log, LAMBDA e : e \in {"SLEEP", "WAKEUP", "EXIT"})

\* C28: the control socket is closed and the context destroyed only after
\* EXIT was published on the socket, no control message follows EXIT, and
\* EXIT is published at most once, however often stop is called.
C28_ExitLastAndOnce ==
    /\ control_pub_socket = "closed" =>
          \E i \in DOMAIN Published : Published[i] = "EXIT"
    /\ \A i \in DOMAIN Published : Published[i] = "EXIT" => i = Len(Published)

(***************************************************************************)
(* Properties of the receivers.                                            *)
(***************************************************************************)
\* C29: the status is [OK] at the start.  A request on status_check_socket is
\* answered by the status for STATUS_CHECK, by [OK] for RESET_STATUS, which
\* sets the status to [OK], and by [ERROR] for anything else, and only
\* RESET_STATUS changes the status; a failing store of a chunk sets the
\* status to [ERROR, type, value]; a store that succeeds and every other
\* step leave the status as it is.
C29_StatusSteps ==
    /\ status = StatusOk
    /\ [][/\ status_requests' # status_requests =>
                /\ status_request' = "STATUS_CHECK" =>
                      status_reply' = status /\ status' = status
                /\ status_request' = "RESET_STATUS" =>
                      status_reply' = StatusOk /\ status' = StatusOk
                /\ status_request' \notin {"STATUS_CHECK", "RESET_STATUS"} =>
                      status_reply' = <<"ERROR">> /\ status' = status
          /\ \A error \in StoreErrors :
                StoreDataChunkFails(error) =>
                   status' = <<"ERROR", error, ErrorValue(error)>>
          /\ (/\ status_requests' = status_requests
              /\ \A error \in StoreErrors : ~StoreDataChunkFails(error)) =>
                status' = status]_vars

\* a STATUS_CHECK was answered by the error of a failed store
C29_Witness ==
    /\ status_request = "STATUS_CHECK"
    /\ Len(status_reply) = 3
    /\ status_reply[1] = "ERROR"
    /\ status = status_reply

\* the dispatchers 0 .. N-1
Dispatchers == 0..(dispatchers - 1)

EndsWith(name, suffix) ==
    /\ Len(suffix) <= Len(name)
    /\ SubSeq(name, Len(name) - Len(suffix) + 1, Len(name)) = suffix

\* C31: a subscription registered with a non-empty suffix list matches a file
\* name exactly when the name ends with one of the listed suffixes.
C31_SuffixAnchored ==
    (match_pc = "matched" /\ suffix_list # <<>>) =>
        (match_result = "match" <=>
            \E k \in 1..Len(suffix_list) : EndsWith(file_name, suffix_list[k]))

(***************************************************************************)
(* Properties of the receiver's confirmations.                             *)
(***************************************************************************)
\* the chunks stored so far whose header asked for a confirmation
StoredToConfirm ==
    {i \in 1..store_pos : channel[IdStore][i].confirmation_required}

\* the confirmations published so far: on their way, lost on their way or
\* counted by the Cleaner
Published_confirmations == confirmations + withheld + cleaner.chunks_seen

\* C32: the receiver has published one confirmation for every chunk it
\* stored whose header carries confirmation_required, the first chunk of a
\* file and every later one, and none for a chunk not yet stored.
C32_ConfirmationPerChunk ==
    Published_confirmations = Cardinality(StoredToConfirm)

(***************************************************************************)
(* Properties of STOP and of the shape of the registries.                  *)
(***************************************************************************)
\* the socket ids a request names
NamedIds(in_message) ==
    {FqdnId(in_message.targets[i][1]) : i \in DOMAIN in_message.targets}

\* what is left of a nodeset without the entries of the named socket ids
Remaining(node_set, named) ==
    SelectSeq(node_set, LAMBDA entry : entry[1] \notin named)

\* the registry and its cursors without the named socket ids: a nodeset that
\* lost no member is kept as it is, one that lost all its members is dropped,
\* any other keeps its other members and its cursor modulo its new size
RECURSIVE WithoutNamed(_, _, _)
WithoutNamed(registered_ids, cursors, named) ==
    IF registered_ids = <<>> THEN [reg |-> <<>>, perm |-> <<>>]
    ELSE LET rest == WithoutNamed(Tail(registered_ids), Tail(cursors), named)
             kept == Remaining(Head(registered_ids), named)
         IN IF kept = Head(registered_ids)
            THEN [reg |-> <<kept>> \o rest.reg,
                  perm |-> <<Head(cursors)>> \o rest.perm]
            ELSE IF kept = <<>> THEN rest
            ELSE [reg |-> <<kept>> \o rest.reg,
                  perm |-> <<Head(cursors) % Len(kept)>> \o rest.perm]

\* C33: a STOP_STREAM that was answered STOP_STREAM removes exactly the
\* registered entries whose socket id the request names: the other members
\* of a nodeset stay, the nodeset's cursor is reduced modulo its new size, a
\* nodeset is dropped only when it has become empty, the cursor list follows
\* the registry, and the query registry and its queues are unchanged.
C33_StopRemovesNamed ==
    [][polled' = "com_socket" =>
         \A in_message \in Requests({"STOP_STREAM"}, {TargetA, TargetB, TargetC}) :
            \A leak \in BOOLEAN :
               (/\ com_reply' = <<"STOP_STREAM">>
                /\ Len(next_requ_node) = Len(open_requ_perm)
                /\ ComRequest(in_message, leak)) =>
                  LET expected == WithoutNamed(open_requ_perm, next_requ_node,
                                               NamedIds(in_message))
                  IN /\ open_requ_perm' = expected.reg
                     /\ next_requ_node' = expected.perm
                     /\ allowed_queries' = allowed_queries
                     /\ open_requ_vari' = open_requ_vari]_vars

\* C34: the stream registry and its cursor list have the same length, and
\* the query registry and its list of pending queues have the same length.
C34_ListsAligned ==
    /\ Len(next_requ_node) = Len(open_requ_perm)
    /\ Len(open_requ_vari) = Len(allowed_queries)

\* C35: every nodeset of the stream registry has a cursor, and the cursor is
\* a position of the nodeset: 0 <= cursor < size of the nodeset.
C35_CursorInRange ==
    \A k \in DOMAIN open_requ_perm :
       /\ k \in DOMAIN next_requ_node
       /\ 0 <= next_requ_node[k]
       /\ next_requ_node[k] < Len(open_requ_perm[k])

\* C36: no nodeset of the stream registry or of the query registry is empty.
C36_NoEmptyNodeset ==
    /\ \A k \in DOMAIN open_requ_perm : open_requ_perm[k] # <<>>
    /\ \A k \in DOMAIN allowed_queries : allowed_queries[k] # <<>>

\* C37: every entry in the pending queue of a query nodeset is an entry
\* registered in that same nodeset.
C37_PendingRegistered ==
    \A k \in DOMAIN open_requ_vari :
       \A i \in DOMAIN open_requ_vari[k] :
          /\ k \in DOMAIN allowed_queries
          /\ IndexOf(allowed_queries[k], open_requ_vari[k][i]) # 0

(***************************************************************************)
(* Properties of the metadata message of the finalize step.                *)
(***************************************************************************)
\* a step hands a message to the metadata target
MetadataSent == Len(sent'[IdMeta]) > Len(sent[IdMeta])

C39_CloseTrackingReset ==
    /\ read_pc = "returned" =>
          /\ recvd_close_from = <<>>
          /\ reply_to_signal = NoSignal
          /\ ~all_close_recvd
    /\ (close_requested /\ markers = Dispatchers) =>
          /\ read_pc = "returned"
          /\ closed_files = files

(***************************************************************************)
(* Properties of the synchronizing event detector.                         *)
(***************************************************************************)
\* the path templates of the images
PathTemplates == {PathTemplate(p, p[Len(p)]) : p \in MessagePaths}

\* the files of all n_detectors detectors of the image have arrived
FullSet(path_tmpl) ==
    \A detid \in detids :
       \E p \in read_paths : p[Len(p)] = detid /\ PathTemplate(p, detid) = path_tmpl

\* how many times get_new_event has returned the event of the template
TimesReturned(path_tmpl) ==
    Cardinality({<<c, i>> \in (1..MaxCalls) \X (1..MaxMessages) :
                    /\ c \in DOMAIN event_lists
                    /\ i \in DOMAIN event_lists[c]
                    /\ event_lists[c][i] = EventMessage(path_tmpl)})

\* the template waits in synced_data for the next get_new_event
Waiting(path_tmpl) ==
    /\ synced_data # NoneData
    /\ \E i \in DOMAIN synced_data : synced_data[i] = path_tmpl

\* C40: the Synchronizing thread keeps running, and every path template of
\* which the files of all n_detectors detectors have arrived has been
\* returned by exactly one get_new_event call or waits in synced_data for
\* the next one; none is returned twice.
C40_FullSetReturnedOnce ==
    /\ sync_thread = "running"
    /\ \A path_tmpl \in PathTemplates :
          /\ TimesReturned(path_tmpl) <= 1
          /\ FullSet(path_tmpl) =>
                (TimesReturned(path_tmpl) = 1 /\ ~Waiting(path_tmpl))
                \/ (TimesReturned(path_tmpl) = 0 /\ Waiting(path_tmpl))


====
